---- MODULE Spec2Model ----
(***************************************************************************)
(* Model of the price acquisition layer (src/yfinance_helper.py) and of    *)
(* the return calculation (src/KOLSentiment.py).                           *)
(*                                                                         *)
(* Time is counted in whole seconds.  A price table (pandas DataFrame) is  *)
(* a sequence of rows [date, close]; Python's None is the record None.     *)
(***************************************************************************)
EXTENDS Integers, Sequences, FiniteSets, TLC

VARIABLES
  files,   \* the cache directory: file name -> [blob, mtime]
  now,     \* time.time()
  disk,    \* "ok" or "failing": whether local file I/O raises
  rng,     \* the random source: where in their intervals its draws fall
  nops,    \* number of steps taken so far (bounds the exploration only)
  last,    \* what the most recent operation was given, did and returned
  procs,   \* the processes using the cache directory at once, by name
  helper,  \* the YFinanceHelper object: its compatibility flags and session
  yf,      \* the yfinance module: the parameters of yf.download, its calls
  db       \* the rows of the kol_sentiment table

vars == <<files, now, disk, rng, nops, last, procs, helper, yf, db>>

(***************************************************************************)
(* Bounds of the exploration.                                              *)
(***************************************************************************)
MaxOps == 2
MaxRetriesArg == 2
MaxLen == 11

(***************************************************************************)
(* Values.                                                                 *)
(***************************************************************************)
None == [isNone |-> TRUE, rows |-> <<>>]
Some(rows) == [isNone |-> FALSE, rows |-> rows]

Row(d, c) == [date |-> d, close |-> c]

\* DataFrame.empty
Empty(rows) == Len(rows) = 0

\* no YFinanceHelper built yet; a yfinance module nobody looks at
NoHelper ==
  [built |-> FALSE, supports_show_errors |-> FALSE, supports_session |-> FALSE,
   session |-> FALSE, probes |-> 0, found |-> {}]
NoUpstream == [params |-> {}, inspectable |-> TRUE, calls |-> <<>>]

\* the cache validity period of _load_from_cache, in seconds
TTL == 24 * 3600

Tickers == {"AAPL"}
StartDates == {"2024-01-01"}
EndDates == {"2024-01-15", "2024-01-31"}

\* pickle.dump / pickle.load: a complete pickle loads back to the table it
\* was written from; a file cut short by a failed write does not load.
Pickle(rows) == [fmt |-> "pkl", rows |-> rows]
Truncated == [fmt |-> "cut", rows |-> <<>>]
Loadable(blob) == blob.fmt = "pkl"
Unpickle(blob) == blob.rows

\* _get_cache_path: f"{ticker}_{start_date}_{end_date}.pkl"
CachePath(t, s, e) == t \o "_" \o s \o "_" \o e \o ".pkl"

Exists(fs, path) == path \in DOMAIN fs

\* Variants of LoadFromCache with a plausible slip each: an entry exactly
\* TTL old still counts as valid; the end date is left out of the lookup.
LoadTTLExpiredAtEqual(fs, clock, dsk, t, s, e) ==
  LET path == CachePath(t, s, e) IN
  IF /\ Exists(fs, path)
     /\ dsk = "ok"
     /\ clock - fs[path].mtime <= TTL
     /\ Loadable(fs[path].blob)
  THEN Some(Unpickle(fs[path].blob))
  ELSE None

LoadIgnoringEnd(fs, clock, dsk, t, s, e) ==
  LET hits == {p \in DOMAIN fs : \E e2 \in EndDates : p = CachePath(t, s, e2)} IN
  IF hits # {} /\ dsk = "ok"
  THEN LET p == CHOOSE p \in hits : TRUE IN
       IF clock - fs[p].mtime < TTL /\ Loadable(fs[p].blob)
       THEN Some(Unpickle(fs[p].blob)) ELSE None
  ELSE None

\* _load_from_cache: the table, or None on a missing, expired or unreadable file
LoadFromCache(fs, clock, dsk, t, s, e) ==
  LET path == CachePath(t, s, e) IN
  IF /\ Exists(fs, path)
     /\ dsk = "ok"
     /\ clock - fs[path].mtime < TTL
     /\ Loadable(fs[path].blob)
  THEN Some(Unpickle(fs[path].blob))
  ELSE None

\* _save_to_cache: the directory contents the write can leave behind.  With
\* the disk failing either open() raised (nothing changes) or pickle.dump
\* raised after open(path, 'wb') had truncated the file.
\* (SaveDropsWrite: a variant that writes nothing.)
SaveDropsWrite(fs, clock, dsk, t, s, e, rows) == {fs}

SaveToCache(fs, clock, dsk, t, s, e, rows) ==
  LET path == CachePath(t, s, e) IN
  IF dsk = "ok"
  THEN {(path :> [blob |-> Pickle(rows), mtime |-> clock]) @@ fs}
  ELSE {fs, (path :> [blob |-> Truncated, mtime |-> clock]) @@ fs}

\* Variant of ClearCache that also removes a file exactly at the cutoff.
ClearCacheAtCutoff(fs, clock, days) ==
  LET cutoff == clock - days * 24 * 3600
      keep == {p \in DOMAIN fs : ~(fs[p].mtime <= cutoff)}
  IN [p \in keep |-> fs[p]]

\* clear_cache: the files that remain
ClearCache(fs, clock, days) ==
  LET cutoff == clock - days * 24 * 3600
      keep == {p \in DOMAIN fs : ~(fs[p].mtime < cutoff)}
  IN [p \in keep |-> fs[p]]

(***************************************************************************)
(* The upstream price source (yf.download) as get_stock_data sees it: it   *)
(* raises, or returns a table that may be empty.                           *)
(***************************************************************************)
Quote(t, s, e) ==
  LET base == IF t = "AAPL" THEN 100 ELSE IF t = "MSFT" THEN 300 ELSE 500
      n == IF e = "2024-01-15" THEN 2 ELSE 3
  IN [i \in 1..n |-> Row(i + 1, base + i)]

Raise(msg) == [kind |-> "raise", msg |-> msg, rows |-> <<>>]
Table(rows) == [kind |-> "table", msg |-> {}, rows |-> rows]

\* the phrases an exception text holds
RateLimitText == {"Too Many Requests"}
OtherErrorText == {"Connection timed out"}

Upstream(t, s, e) ==
  {Raise(RateLimitText), Raise(OtherErrorText), Table(<<>>), Table(Quote(t, s, e))}

\* line 179: "Too Many Requests" in error_msg or "Rate limited" in error_msg
\* or "429" in error_msg
IsRateLimit(msg) == msg \cap {"Too Many Requests", "Rate limited", "429"} # {}

\* random.uniform(delay_min, delay_max), with the helper KOLSentimentDB builds
DelayMin == 1
DelayMax == 3
\* random.uniform(1, 3) of the backoff
JitterMin == 1
JitterMax == 3
\* the draws of the random source explored: every draw of a call at the
\* low end of its interval, or every draw at the high end
Randoms == {[delay |-> DelayMin, jitter |-> JitterMin],
            [delay |-> DelayMax, jitter |-> JitterMax]}
\* time.sleep(1) after another failure
FixedDelay == 1

(***************************************************************************)
(* Events an operation leaves in its trace.                                *)
(***************************************************************************)
Ev(ev, who, kind, dur, attempt) ==
  [ev |-> ev, who |-> who, kind |-> kind, dur |-> dur, attempt |-> attempt]

OutcomeKind(o) ==
  IF o.kind = "raise" THEN (IF IsRateLimit(o.msg) THEN "ratelimit" ELSE "error")
  ELSE IF Empty(o.rows) THEN "empty" ELSE "data"

Sleep(st, kind, dur, a) ==
  [st EXCEPT !.now = @ + dur,
             !.trace = Append(@, Ev("sleep", <<>>, kind, dur, a))]

Called(st, who, o, a) ==
  [st EXCEPT !.trace = Append(@, Ev("download", who, OutcomeKind(o), 0, a))]

Finish(st, out, raised) ==
  [out |-> out, raised |-> raised, files |-> st.files, now |-> st.now,
   trace |-> st.trace, results |-> <<>>]

(***************************************************************************)
(* get_stock_data.  c = [t, s, e, mr, disk, rnd, up] is the call (up: the  *)
(* outcomes the upstream can produce for it), st = [files, now, trace] the *)
(* state it has reached; the result is the set of ways the call can end.   *)
(***************************************************************************)
RECURSIVE AttemptRuns(_, _, _)

Call(t, s, e, mr, dsk, rnd, up) ==
  [t |-> t, s |-> s, e |-> e, mr |-> mr, disk |-> dsk, rnd |-> rnd, up |-> up]

Saved(c, st, rows) ==
  {[st EXCEPT !.files = f,
              !.trace = Append(@, Ev("save", <<c.t>>, "", 0, 0))] :
     f \in SaveToCache(st.files, st.now, c.disk, c.t, c.s, c.e, rows)}

\* Variants of AfterDownload with a plausible slip each: an empty table
\* ends the call; the last attempt's exception escapes to the caller.
AfterDownloadEmptyStops(c, st, a, o) ==
  IF o.kind = "table"
  THEN IF ~Empty(o.rows)
       THEN {Finish(s1, Some(o.rows), FALSE) : s1 \in Saved(c, st, o.rows)}
       ELSE {Finish(st, None, FALSE)}
  ELSE IF IsRateLimit(o.msg)
       THEN AttemptRuns(c, Sleep(st, "backoff", 2^a + c.rnd.jitter, a), a + 1)
       ELSE IF a < c.mr - 1
            THEN AttemptRuns(c, Sleep(st, "fixed", FixedDelay, a), a + 1)
            ELSE {Finish(st, None, FALSE)}

AfterDownloadReraises(c, st, a, o) ==
  IF o.kind = "table"
  THEN IF ~Empty(o.rows)
       THEN {Finish(s1, Some(o.rows), FALSE) : s1 \in Saved(c, st, o.rows)}
       ELSE AttemptRuns(c, st, a + 1)
  ELSE IF IsRateLimit(o.msg)
       THEN AttemptRuns(c, Sleep(st, "backoff", 2^a + c.rnd.jitter, a), a + 1)
       ELSE IF a < c.mr - 1
            THEN AttemptRuns(c, Sleep(st, "fixed", FixedDelay, a), a + 1)
            ELSE {Finish(st, None, TRUE)}

\* Further variants of AfterDownload: a rate-limited attempt is given one
\* more try at the same index; the backoff grows linearly.
AfterDownloadFreeRateLimit(c, st, a, o) ==
  IF o.kind = "table"
  THEN IF ~Empty(o.rows)
       THEN {Finish(s1, Some(o.rows), FALSE) : s1 \in Saved(c, st, o.rows)}
       ELSE AttemptRuns(c, st, a + 1)
  ELSE IF IsRateLimit(o.msg)
       THEN AttemptRuns(c, Sleep(st, "backoff", 2^a + c.rnd.jitter, a),
                        IF Len(SelectSeq(st.trace, LAMBDA x : x.ev = "download")) <= c.mr
                        THEN a ELSE a + 1)
       ELSE IF a < c.mr - 1
            THEN AttemptRuns(c, Sleep(st, "fixed", FixedDelay, a), a + 1)
            ELSE {Finish(st, None, FALSE)}

AfterDownloadLinearBackoff(c, st, a, o) ==
  IF o.kind = "table"
  THEN IF ~Empty(o.rows)
       THEN {Finish(s1, Some(o.rows), FALSE) : s1 \in Saved(c, st, o.rows)}
       ELSE AttemptRuns(c, st, a + 1)
  ELSE IF IsRateLimit(o.msg)
       THEN AttemptRuns(c, Sleep(st, "backoff", 2 * a + c.rnd.jitter, a), a + 1)
       ELSE IF a < c.mr - 1
            THEN AttemptRuns(c, Sleep(st, "fixed", FixedDelay, a), a + 1)
            ELSE {Finish(st, None, FALSE)}

\* Variant of AfterDownload that caches whatever table came back.
AfterDownloadSavesEmpty(c, st, a, o) ==
  IF o.kind = "table"
  THEN IF ~Empty(o.rows)
       THEN {Finish(s1, Some(o.rows), FALSE) : s1 \in Saved(c, st, o.rows)}
       ELSE UNION {AttemptRuns(c, s1, a + 1) : s1 \in Saved(c, st, o.rows)}
  ELSE IF IsRateLimit(o.msg)
       THEN AttemptRuns(c, Sleep(st, "backoff", 2^a + c.rnd.jitter, a), a + 1)
       ELSE IF a < c.mr - 1
            THEN AttemptRuns(c, Sleep(st, "fixed", FixedDelay, a), a + 1)
            ELSE {Finish(st, None, FALSE)}

\* lines 169-188: what follows the upstream call of attempt a
AfterDownload(c, st, a, o) ==
  IF o.kind = "table"
  THEN IF ~Empty(o.rows)
       THEN {Finish(s1, Some(o.rows), FALSE) : s1 \in Saved(c, st, o.rows)}
       ELSE AttemptRuns(c, st, a + 1)
  ELSE IF IsRateLimit(o.msg)
       THEN AttemptRuns(c, Sleep(st, "backoff", 2^a + c.rnd.jitter, a), a + 1)
       ELSE IF a < c.mr - 1
            THEN AttemptRuns(c, Sleep(st, "fixed", FixedDelay, a), a + 1)
            ELSE {Finish(st, None, FALSE)}

\* Variant of AttemptRuns without the delay before a later attempt.
AttemptRunsNoDelay(c, st, a) ==
  IF a >= c.mr
  THEN {Finish(st, None, FALSE)}
  ELSE UNION {AfterDownload(c, Called(st, <<c.t>>, o, a), a, o) : o \in c.up}

\* lines 150-191: for attempt in range(max_retries)
AttemptRuns(c, st, a) ==
  IF a >= c.mr
  THEN {Finish(st, None, FALSE)}
  ELSE LET s1 == IF a > 0 THEN Sleep(st, "random", c.rnd.delay, a) ELSE st
       IN UNION {AfterDownload(c, Called(s1, <<c.t>>, o, a), a, o) :
                   o \in c.up}

\* Variant of GetStockData in which a cache file that cannot be read makes
\* the call raise.
GetStockDataReadRaises(fs, clock, c) ==
  LET path == CachePath(c.t, c.s, c.e)
      st == [files |-> fs, now |-> clock, trace |-> <<>>]
      cached == LoadFromCache(fs, clock, c.disk, c.t, c.s, c.e)
  IN IF Exists(fs, path) /\ (c.disk # "ok" \/ ~Loadable(fs[path].blob))
     THEN {Finish(st, None, TRUE)}
     ELSE IF ~cached.isNone THEN {Finish(st, cached, FALSE)}
          ELSE AttemptRuns(c, st, 0)

\* Variant of GetStockData that never consults the cache.
GetStockDataSkipsCache(fs, clock, c) ==
  AttemptRuns(c, [files |-> fs, now |-> clock, trace |-> <<>>], 0)

\* lines 144-147, then the loop
GetStockData(fs, clock, c) ==
  LET cached == LoadFromCache(fs, clock, c.disk, c.t, c.s, c.e)
      st == [files |-> fs, now |-> clock, trace |-> <<>>]
  IN IF ~cached.isNone
     THEN {Finish(st, cached, FALSE)}
     ELSE AttemptRuns(c, st, 0)

\* the upstream calls in a trace
Downloads(trace) == SelectSeq(trace, LAMBDA x : x.ev = "download")
NumCalls(trace) == Len(Downloads(trace))

(***************************************************************************)
(* The operations.                                                         *)
(***************************************************************************)
Last(op, t, s, e, arg, rows, run) ==
  [op |-> op, t |-> t, s |-> s, e |-> e, arg |-> arg, rows |-> rows,
   pre |-> files, now0 |-> now, disk |-> disk, nops |-> nops + 1,
   out |-> run.out, raised |-> run.raised, trace |-> run.trace,
   results |-> run.results, tickers |-> <<>>, bulk |-> FALSE]

NoRun == [out |-> None, raised |-> FALSE, trace |-> <<>>, results |-> <<>>]

\* The cache directory outlives the process: the constructor (lines 33-35)
\* only creates it when missing.  A directory left by earlier runs holds
\* files _save_to_cache wrote: pickles of non-empty tables, or files a
\* failed write cut short, none newer than the clock.
T0 == 2 * TTL
InitAges == {0, TTL - 1, TTL}
InitDirs ==
  {<<>>} \cup
  {(CachePath("AAPL", "2024-01-01", "2024-01-15") :>
      [blob |-> Pickle(<<Row(1, 7)>>), mtime |-> T0 - age]) : age \in InitAges} \cup
  {(CachePath("AAPL", "2024-01-01", "2024-01-15") :>
      [blob |-> Truncated, mtime |-> T0])} \cup
  {(CachePath("AAPL", "2024-01-01", "2024-01-31") :>
      [blob |-> Pickle(<<Row(1, 7)>>), mtime |-> T0])}

Init ==
  /\ files \in InitDirs
  /\ now = T0
  /\ disk = "ok"
  /\ rng \in Randoms
  /\ nops = 0
  /\ last = Last("init", "", "", "", 0, <<>>, NoRun)
  /\ procs = <<>>
  /\ helper = NoHelper /\ yf = NoUpstream /\ db = <<>>

\* the tables put directly
\* removed_count, and the print of it that ends clear_cache; the function
\* has no return statement
RemovedCount(fs, clock, days) ==
  Cardinality(DOMAIN fs \ DOMAIN ClearCache(fs, clock, days))

Printed(count) == Ev("print", <<>>, "removed", count, 0)

PutTables == {<<Row(1, 8)>>, <<Row(1, 9), Row(2, 9)>>}

\* time passes
Tick ==
  /\ nops < MaxOps
  /\ \E d \in {1, TTL - 1} : now' = now + d
  /\ nops' = nops + 1
  /\ UNCHANGED <<files, disk, rng, last, procs, helper, yf, db>>

\* local storage starts or stops failing
DiskFlip ==
  /\ nops < MaxOps
  /\ disk' = IF disk = "ok" THEN "failing" ELSE "ok"
  /\ nops' = nops + 1
  /\ UNCHANGED <<files, now, rng, last, procs, helper, yf, db>>

\* PriceCache.put: _save_to_cache
Put ==
  /\ nops < MaxOps
  /\ \E t \in Tickers, s \in StartDates, e \in EndDates :
       \E rows \in PutTables :
         \E f \in SaveToCache(files, now, disk, t, s, e, rows) :
           /\ files' = f
           /\ last' = Last("put", t, s, e, 0, rows, NoRun)
  /\ nops' = nops + 1
  /\ UNCHANGED <<now, disk, rng, procs, helper, yf, db>>

\* PriceCache.get: _load_from_cache
Get ==
  /\ nops < MaxOps
  /\ \E t \in Tickers, s \in StartDates, e \in EndDates :
       last' = Last("get", t, s, e, 0, <<>>,
                    [NoRun EXCEPT !.out = LoadFromCache(files, now, disk, t, s, e)])
  /\ nops' = nops + 1
  /\ UNCHANGED <<files, now, disk, rng, procs, helper, yf, db>>

\* ResilientFetcher.fetch: get_stock_data
Fetch ==
  /\ nops < MaxOps
  /\ \E t \in Tickers, s \in StartDates, e \in EndDates,
        mr \in 0..MaxRetriesArg :
       \E run \in GetStockData(files, now,
                               Call(t, s, e, mr, disk, rng, Upstream(t, s, e))) :
         /\ files' = run.files
         /\ now' = run.now
         /\ last' = Last("fetch", t, s, e, mr, <<>>, run)
  /\ nops' = nops + 1
  /\ UNCHANGED <<disk, rng, procs, helper, yf, db>>

\* PriceCache.purge: clear_cache.  It has no handler of its own: with the
\* disk failing os.listdir raises to the caller and nothing is removed.
Purge ==
  /\ nops < MaxOps
  /\ \E days \in {0, 1} :
       /\ files' = IF disk = "ok" THEN ClearCache(files, now, days) ELSE files
       /\ last' = Last("purge", "", "", "", days, <<>>,
                       [NoRun EXCEPT
                          !.raised = (disk # "ok"),
                          !.trace = IF disk = "ok"
                                    THEN <<Printed(RemovedCount(files, now, days))>>
                                    ELSE <<>>])
  /\ nops' = nops + 1
  /\ UNCHANGED <<now, disk, rng, procs, helper, yf, db>>

Next == Tick \/ DiskFlip \/ Put \/ Get \/ Purge \/ Fetch

Spec == Init /\ [][Next]_vars

(***************************************************************************)
(* batch_get_stock_data.  b = [tickers, s, e, bs, delay, bulk, disk, rnd,  *)
(* script] is the call; x = [files, now, trace, results] the state it has  *)
(* reached.  The script fixes what the upstream does during the call:      *)
(* script.bulk[k] is whether the multi-ticker call of batch k raises, and  *)
(* script.avail[t] what the upstream has for ticker t.                     *)
(***************************************************************************)
\* max_retries: int = 3
DefaultMaxRetries == 3
\* delay_between_batches: float = 3.0
BatchDelay == 3

Min(a, b) == IF a < b THEN a ELSE b

\* yf.download(ticker, ...) under the script
SingleOutcome(script, t) ==
  CASE script.avail[t] = "data" -> Table(Quote(t, "2024-01-01", "2024-01-31"))
    [] script.avail[t] = "empty" -> Table(<<>>)
    [] script.avail[t] = "ratelimit" -> Raise(RateLimitText)
    [] OTHER -> Raise(OtherErrorText)

\* yf.download(uncached_tickers, group_by='ticker', ...) under the script:
\* the columns of the table it returns, by ticker
BulkColumns(script, U) ==
  LET have == {U[k] : k \in {j \in 1..Len(U) : script.avail[U[j]] \in {"data", "empty"}}}
  IN [t \in have |-> IF script.avail[t] = "data"
                     THEN Quote(t, "2024-01-01", "2024-01-31") ELSE <<>>]

\* bulk_data.empty
BulkEmpty(cols) == \A t \in DOMAIN cols : Empty(cols[t])

BSleep(x, kind, dur, idx) ==
  [x EXCEPT !.now = @ + dur,
            !.trace = Append(@, Ev("sleep", <<>>, kind, dur, idx))]

BEvent(x, ev, who, kind, idx) ==
  [x EXCEPT !.trace = Append(@, Ev(ev, who, kind, 0, idx))]

\* results[ticker] = data
Resolve(x, t, rows) == [x EXCEPT !.results = (t :> rows) @@ @]

BSave(b, x, t, rows) ==
  {[x EXCEPT !.files = f, !.trace = Append(@, Ev("save", <<t>>, "", 0, 0))] :
     f \in SaveToCache(x.files, x.now, b.disk, t, b.s, b.e, rows)}

\* lines 328-331 and 351-356: get_stock_data for one ticker, its result kept
\* when it is not None, then _random_delay
FetchOne(b, x, t, idx) ==
  {BSleep([x EXCEPT !.files = run.files,
                    !.now = run.now,
                    !.trace = @ \o <<Ev("fetch", <<t>>, "", 0, idx)>> \o run.trace,
                    !.results = IF run.out.isNone THEN @
                                ELSE (t :> run.out.rows) @@ @],
          "random", b.rnd.delay, idx) :
     run \in GetStockData(x.files, x.now,
                          Call(t, b.s, b.e, DefaultMaxRetries, b.disk, b.rnd,
                               {SingleOutcome(b.script, t)}))}

RECURSIVE FetchEach(_, _, _, _, _)
\* for ticker in U: get_stock_data ...
FetchEach(b, S, U, k, idx) ==
  IF k > Len(U) THEN S
  ELSE FetchEach(b, UNION {FetchOne(b, x, U[k], idx) : x \in S}, U, k + 1, idx)

RECURSIVE Demux(_, _, _, _, _)
\* Variant of Demux that leaves out the `if not ticker_data.empty` test.
DemuxKeepsEmpty(b, S, U, cols, k) ==
  IF k > Len(U) THEN S
  ELSE Demux(b,
             IF U[k] \in DOMAIN cols
             THEN UNION {BSave(b, Resolve(x, U[k], cols[U[k]]), U[k], cols[U[k]]) :
                           x \in S}
             ELSE S,
             U, cols, k + 1)

\* lines 306-319: for ticker in uncached_tickers: take its columns out of
\* the table, keep and cache them when present and not empty
Demux(b, S, U, cols, k) ==
  IF k > Len(U) THEN S
  ELSE Demux(b,
             IF U[k] \in DOMAIN cols /\ ~Empty(cols[U[k]])
             THEN UNION {BSave(b, Resolve(x, U[k], cols[U[k]]), U[k], cols[U[k]]) :
                           x \in S}
             ELSE S,
             U, cols, k + 1)

\* lines 269-275: the cache lookups of a batch
Hits(b, x, batch) ==
  {k \in 1..Len(batch) :
     ~LoadFromCache(x.files, x.now, b.disk, batch[k], b.s, b.e).isNone}

Uncached(b, x, batch) ==
  SelectSeq(batch, LAMBDA t : LoadFromCache(x.files, x.now, b.disk, t, b.s, b.e).isNone)

WithHits(b, x, batch) ==
  [x EXCEPT !.results =
     [t \in {batch[k] : k \in Hits(b, x, batch)} |->
        LoadFromCache(x.files, x.now, b.disk, t, b.s, b.e).rows] @@ @]

\* Variant of BulkBatch that asks the upstream for the whole batch.
BulkBatchWholeBatch(b, x, batch, idx) ==
  LET U == batch
      x1 == WithHits(b, x, batch)
      cols == BulkColumns(b.script, U)
  IN IF b.script.bulk[idx] = "raise"
     THEN FetchEach(b, {BEvent(x1, "bulk", U, "raise", idx)}, U, 1, idx)
     ELSE IF BulkEmpty(cols)
          THEN {BEvent(x1, "bulk", U, "emptytable", idx)}
          ELSE IF Len(U) = 1
               THEN BSave(b, Resolve(BEvent(x1, "bulk", U, "table", idx),
                                     U[1], cols[U[1]]), U[1], cols[U[1]])
               ELSE Demux(b, {BEvent(x1, "bulk", U, "table", idx)}, U, cols, 1)

\* Variant of BulkBatch whose single-ticker branch forgets the cache.
BulkBatchSingleNotSaved(b, x, batch, idx) ==
  LET U == Uncached(b, x, batch)
      x1 == WithHits(b, x, batch)
      cols == BulkColumns(b.script, U)
  IN IF U = <<>> THEN {x1}
     ELSE IF b.script.bulk[idx] = "raise"
          THEN FetchEach(b, {BEvent(x1, "bulk", U, "raise", idx)}, U, 1, idx)
          ELSE IF BulkEmpty(cols)
               THEN {BEvent(x1, "bulk", U, "emptytable", idx)}
               ELSE IF Len(U) = 1
                    THEN {Resolve(BEvent(x1, "bulk", U, "table", idx),
                                  U[1], cols[U[1]])}
                    ELSE Demux(b, {BEvent(x1, "bulk", U, "table", idx)}, U, cols, 1)

\* lines 264-331: one batch of _batch_download_bulk
BulkBatch(b, x, batch, idx) ==
  LET U == Uncached(b, x, batch)
      x1 == WithHits(b, x, batch)
      cols == BulkColumns(b.script, U)
  IN IF U = <<>> THEN {x1}
     ELSE IF b.script.bulk[idx] = "raise"
          THEN FetchEach(b, {BEvent(x1, "bulk", U, "raise", idx)}, U, 1, idx)
          ELSE IF BulkEmpty(cols)
               THEN {BEvent(x1, "bulk", U, "emptytable", idx)}
               ELSE IF Len(U) = 1
                    THEN BSave(b, Resolve(BEvent(x1, "bulk", U, "table", idx),
                                          U[1], cols[U[1]]), U[1], cols[U[1]])
                    ELSE Demux(b, {BEvent(x1, "bulk", U, "table", idx)}, U, cols, 1)

\* lines 350-356: one batch of _batch_download_individual
IndividualBatch(b, x, batch, idx) == FetchEach(b, {x}, batch, 1, idx)

RECURSIVE Batches(_, _, _)
\* Variants of Batches: a slice runs one ticker into the next batch; the
\* test for the sleep after a batch is off by one.
BatchesOverlapping(b, S, i) ==
  IF i > Len(b.tickers) THEN S
  ELSE LET idx == (i - 1) \div b.bs + 1
           batch == SubSeq(b.tickers, i, Min(i + b.bs, Len(b.tickers)))
           S0 == {BEvent(x, "batch", batch, "", idx) : x \in S}
           S1 == UNION {IF b.bulk THEN BulkBatch(b, x, batch, idx)
                                  ELSE IndividualBatch(b, x, batch, idx) : x \in S0}
           S2 == IF i + b.bs <= Len(b.tickers)
                 THEN {BSleep(x, "batch", b.delay, idx) : x \in S1}
                 ELSE S1
       IN Batches(b, S2, i + b.bs)

BatchesSleepOffByOne(b, S, i) ==
  IF i > Len(b.tickers) THEN S
  ELSE LET idx == (i - 1) \div b.bs + 1
           batch == SubSeq(b.tickers, i, Min(i + b.bs - 1, Len(b.tickers)))
           S0 == {BEvent(x, "batch", batch, "", idx) : x \in S}
           S1 == UNION {IF b.bulk THEN BulkBatch(b, x, batch, idx)
                                  ELSE IndividualBatch(b, x, batch, idx) : x \in S0}
           S2 == IF i + b.bs < Len(b.tickers)
                 THEN {BSleep(x, "batch", b.delay, idx) : x \in S1}
                 ELSE S1
       IN Batches(b, S2, i + b.bs)

\* lines 260-336 and 346-361: for i in range(0, len(tickers), batch_size),
\* with the sleep after every batch but the last (i is 1-based here)
Batches(b, S, i) ==
  IF i > Len(b.tickers) THEN S
  ELSE LET idx == (i - 1) \div b.bs + 1
           batch == SubSeq(b.tickers, i, Min(i + b.bs - 1, Len(b.tickers)))
           S0 == {BEvent(x, "batch", batch, "", idx) : x \in S}
           S1 == UNION {IF b.bulk THEN BulkBatch(b, x, batch, idx)
                                  ELSE IndividualBatch(b, x, batch, idx) : x \in S0}
           S2 == IF i + b.bs <= Len(b.tickers)
                 THEN {BSleep(x, "batch", b.delay, idx) : x \in S1}
                 ELSE S1
       IN Batches(b, S2, i + b.bs)

\* lines 228-252; range() raises ValueError on a step of 0
BatchGetStockData(fs, clock, b) ==
  LET x0 == [files |-> fs, now |-> clock, trace |-> <<>>, results |-> <<>>]
  IN IF b.bs = 0
     THEN {[out |-> None, raised |-> TRUE, files |-> fs, now |-> clock,
            trace |-> <<>>, results |-> <<>>]}
     ELSE {[out |-> None, raised |-> FALSE, files |-> x.files, now |-> x.now,
            trace |-> x.trace, results |-> x.results] :
             x \in Batches(b, {x0}, 1)}

(***************************************************************************)
(* Calls of batch_get_stock_data from a directory earlier runs left.       *)
(***************************************************************************)
MaxBatchSize == 2

BatchTickers == <<"AAPL", "MSFT", "GOOGL">>
TickerLists == {SubSeq(BatchTickers, 1, n) : n \in 1..Len(BatchTickers)}

CachedAt(t, age) ==
  (CachePath(t, "2024-01-01", "2024-01-31") :>
     [blob |-> Pickle(<<Row(1, 7)>>), mtime |-> T0 - age])

InitDirsBatch ==
  {<<>>, CachedAt("AAPL", 0), CachedAt("MSFT", 0), CachedAt("AAPL", TTL - 1),
   CachedAt("AAPL", TTL), CachedAt("AAPL", 0) @@ CachedAt("MSFT", 0),
   CachedAt("GOOGL", TTL - 1)}

NumBatches(n, bs) == IF bs = 0 THEN 0 ELSE (n + bs - 1) \div bs

Scripts(tickers, bs) ==
  [bulk : [1..NumBatches(Len(tickers), bs) -> {"raise", "table"}],
   avail : [{tickers[k] : k \in 1..Len(tickers)} ->
              {"data", "empty", "error", "ratelimit"}]]

InitBatch ==
  /\ files \in InitDirsBatch
  /\ now = T0
  /\ disk \in {"ok", "failing"}
  /\ rng \in Randoms
  /\ nops = 0
  /\ last = Last("init", "", "", "", 0, <<>>, NoRun)
  /\ procs = <<>>
  /\ helper = NoHelper /\ yf = NoUpstream /\ db = <<>>

\* BatchAcquirer.acquire_many: batch_get_stock_data
AcquireMany ==
  /\ nops = 0
  /\ \E tickers \in TickerLists, bs \in 0..MaxBatchSize, bulk \in BOOLEAN :
       \E script \in Scripts(tickers, bs) :
         \E run \in BatchGetStockData(files, now,
                      [tickers |-> tickers, s |-> "2024-01-01", e |-> "2024-01-31",
                       bs |-> bs, delay |-> BatchDelay, bulk |-> bulk,
                       disk |-> disk, rnd |-> rng, script |-> script]) :
           /\ files' = run.files
           /\ now' = run.now
           /\ last' = [Last("batch", "", "2024-01-01", "2024-01-31", bs, <<>>, run)
                         EXCEPT !.tickers = tickers, !.bulk = bulk]
  /\ nops' = nops + 1
  /\ UNCHANGED <<disk, rng, procs, helper, yf, db>>

NextBatch == AcquireMany

SpecBatch == InitBatch /\ [][NextBatch]_vars

\* the same calls with a disk that works
InitRepeat ==
  /\ files \in InitDirsBatch
  /\ now = T0
  /\ disk = "ok"
  /\ rng \in Randoms
  /\ nops = 0
  /\ last = Last("init", "", "", "", 0, <<>>, NoRun)
  /\ procs = <<>>
  /\ helper = NoHelper /\ yf = NoUpstream /\ db = <<>>

SpecRepeat == InitRepeat /\ [][NextBatch]_vars

(***************************************************************************)
(* KOLSentimentDB.calculate_returns.  Prices are whole numbers; a return   *)
(* is kept as the fraction num/den the code divides, or as what float64    *)
(* division by zero gives: inf, or nan for 0/0.  Neither raises.           *)
(***************************************************************************)
Horizons == <<1, 3, 10>>

Absent == [kind |-> "none", num |-> 0, den |-> 1]

\* numpy.float64 division
Div(n, d) ==
  IF d # 0 THEN [kind |-> "num", num |-> n, den |-> d]
  ELSE IF n = 0 THEN [kind |-> "nan", num |-> n, den |-> d]
       ELSE [kind |-> "inf", num |-> n, den |-> d]

\* Variant of ReturnAt that reads the bar one position early.
ReturnAtOneEarly(rows, h, p0) ==
  IF Len(rows) >= h THEN Div(rows[h].close - p0, p0) ELSE Absent

\* if len(hist) > h: (hist['Close'].iloc[h] - initial_price) / initial_price
ReturnAt(rows, h, p0) ==
  IF Len(rows) > h THEN Div(rows[h + 1].close - p0, p0) ELSE Absent

\* (initial_date + timedelta(days=20)).strftime('%Y-%m-%d')
Plus20Days(d) == IF d = "2024-01-01" THEN "2024-01-21" ELSE "2024-02-04"

\* a table of n daily bars
Series(n) == [i \in 1..n |-> Row(i, 100 + i)]

\* lines 70-104
CalculateReturns(fs, clock, dsk, rnd, up, t, d, p0) ==
  {[run EXCEPT !.results =
      IF run.out.isNone \/ Empty(run.out.rows)
      THEN <<Absent, Absent, Absent>>
      ELSE [k \in 1..3 |-> ReturnAt(run.out.rows, Horizons[k], p0)]] :
     run \in GetStockData(fs, clock,
                          Call(t, d, Plus20Days(d), DefaultMaxRetries, dsk, rnd, up))}

(***************************************************************************)
(* Calls of calculate_returns from a directory earlier runs left.          *)
(***************************************************************************)
InitialDates == {"2024-01-01", "2024-01-15"}
InitialPrices == {0, 50, 100}

InitDirsReturns ==
  {<<>>} \cup
  {(CachePath("AAPL", "2024-01-01", "2024-01-21") :>
      [blob |-> Pickle(Series(n)), mtime |-> T0]) : n \in {2, 4}}

\* what the upstream does during the call: raise, or a table of n bars
UpstreamReturns ==
  {{Raise(RateLimitText)}, {Raise(OtherErrorText)}} \cup
  {{Table(Series(n))} : n \in 0..MaxLen}

InitReturns ==
  /\ files \in InitDirsReturns
  /\ now = T0
  /\ disk \in {"ok", "failing"}
  /\ rng \in Randoms
  /\ nops = 0
  /\ last = Last("init", "", "", "", 0, <<>>, NoRun)
  /\ procs = <<>>
  /\ helper = NoHelper /\ yf = NoUpstream /\ db = <<>>

\* ReturnCalculator.compute_returns: calculate_returns
ComputeReturns ==
  /\ nops = 0
  /\ \E d \in InitialDates, p0 \in InitialPrices, up \in UpstreamReturns :
       \E run \in CalculateReturns(files, now, disk, rng, up, "AAPL", d, p0) :
         /\ files' = run.files
         /\ now' = run.now
         /\ last' = Last("returns", "AAPL", d, Plus20Days(d), p0, <<>>, run)
  /\ nops' = nops + 1
  /\ UNCHANGED <<disk, rng, procs, helper, yf, db>>

NextReturns == ComputeReturns

SpecReturns == InitReturns /\ [][NextReturns]_vars

(***************************************************************************)
(* YFinanceHelper.get_stock_price_on_date.  A bar's date is a day number   *)
(* of January 2024 and its index entry is midnight of that day; a target   *)
(* datetime is a number of seconds since the start of day 0.               *)
(***************************************************************************)
Day == 86400

Abs(x) == IF x < 0 THEN 0 - x ELSE x

\* strftime('%Y-%m-%d') of a day of January 2024
TwoDigits(d) ==
  <<"0", "1", "2", "3">>[(d \div 10) + 1] \o
  <<"0", "1", "2", "3", "4", "5", "6", "7", "8", "9">>[(d % 10) + 1]

DateStr(d) == "2024-01-" \o TwoDigits(d)

\* days_buffer: int = 5
DaysBuffer == 5

\* abs((data.index - target_date).days): Timedelta.days is the floor of the
\* difference in days
DateDiff(row, ts) == Abs((row.date * Day - ts) \div Day)

\* data['date_diff'].idxmin(): the first position holding the minimum
IdxMin(rows, ts) ==
  CHOOSE i \in 1..Len(rows) :
    \A j \in 1..Len(rows) :
      \/ DateDiff(rows[i], ts) < DateDiff(rows[j], ts)
      \/ DateDiff(rows[i], ts) = DateDiff(rows[j], ts) /\ i <= j

\* lines 213-224: the exact date's close, else the close at idxmin
ClosestClose(rows, ts) ==
  LET exact == {i \in 1..Len(rows) : DateStr(rows[i].date) = DateStr(ts \div Day)}
  IN IF exact # {}
     THEN rows[CHOOSE i \in exact : \A j \in exact : i <= j].close
     ELSE rows[IdxMin(rows, ts)].close

\* lines 193-226; the price is <<close>>, or <<>> for None
GetStockPriceOnDate(fs, clock, dsk, rnd, up, t, ts) ==
  {[run EXCEPT !.results =
      IF run.out.isNone \/ Empty(run.out.rows) THEN <<>>
      ELSE <<ClosestClose(run.out.rows, ts)>>] :
     run \in GetStockData(fs, clock,
                          Call(t, DateStr((ts \div Day) - DaysBuffer),
                               DateStr((ts \div Day) + DaysBuffer),
                               DefaultMaxRetries, dsk, rnd, up))}

(***************************************************************************)
(* Calls of get_stock_price_on_date.                                       *)
(***************************************************************************)
BarDates == 11..15
TargetDays == {12, 13, 14}
TimesOfDay == {0, 3600, 15 * 3600}

RECURSIVE Ascending(_)
\* the bars of a set of dates, in date order
Ascending(ds) ==
  IF ds = {} THEN <<>>
  ELSE LET d == CHOOSE x \in ds : \A y \in ds : x <= y
       IN <<Row(d, 100 + d)>> \o Ascending(ds \ {d})

UpstreamPrice ==
  {{Raise(OtherErrorText)}} \cup {{Table(Ascending(ds))} : ds \in SUBSET BarDates}

InitDirsPrice ==
  {<<>>,
   CachePath("AAPL", DateStr(8), DateStr(18)) :>
     [blob |-> Pickle(Ascending({12, 15})), mtime |-> T0]}

InitPrice ==
  /\ files \in InitDirsPrice
  /\ now = T0
  /\ disk \in {"ok", "failing"}
  /\ rng \in Randoms
  /\ nops = 0
  /\ last = Last("init", "", "", "", 0, <<>>, NoRun)
  /\ procs = <<>>
  /\ helper = NoHelper /\ yf = NoUpstream /\ db = <<>>

\* EntryPriceResolver: get_stock_price_on_date
PriceOnDate ==
  /\ nops = 0
  /\ \E d \in TargetDays, tod \in TimesOfDay, up \in UpstreamPrice :
       \E run \in GetStockPriceOnDate(files, now, disk, rng, up, "AAPL", d * Day + tod) :
         /\ files' = run.files
         /\ now' = run.now
         /\ last' = Last("price", "AAPL", DateStr(d - DaysBuffer),
                         DateStr(d + DaysBuffer), d * Day + tod, <<>>, run)
  /\ nops' = nops + 1
  /\ UNCHANGED <<disk, rng, procs, helper, yf, db>>

NextPrice == PriceOnDate

SpecPrice == InitPrice /\ [][NextPrice]_vars

(***************************************************************************)
(* is_direction_correct (src/kol_accuracy.py and, again,                   *)
(* src/kol_performance_metrics.py).  A sentiment label is the sequence of  *)
(* its characters; a return is a whole number of 1/10000 (0.01 is 100).    *)
(***************************************************************************)
UpperCase == <<"A", "B", "E", "G", "I", "L", "N", "O", "P", "R", "S", "T", "U", "V">>
LowerCase == <<"a", "b", "e", "g", "i", "l", "n", "o", "p", "r", "s", "t", "u", "v">>

\* str.lower(), character by character
Lower(label) ==
  [k \in 1..Len(label) |->
     IF \E u \in 1..Len(UpperCase) : UpperCase[u] = label[k]
     THEN LowerCase[CHOOSE u \in 1..Len(UpperCase) : UpperCase[u] = label[k]]
     ELSE label[k]]

Positive == <<"p", "o", "s", "i", "t", "i", "v", "e">>
Negative == <<"n", "e", "g", "a", "t", "i", "v", "e">>
Neutral == <<"n", "e", "u", "t", "r", "a", "l">>

\* abs(ret) < 0.01
NeutralBand == 100

\* Variant of IsDirectionCorrect whose neutral band includes its edge.
IsDirectionCorrectBandClosed(sentiment, ret) ==
  IF Lower(sentiment) = Positive /\ ret > 0 THEN 1
  ELSE IF Lower(sentiment) = Negative /\ ret < 0 THEN 1
       ELSE IF Lower(sentiment) = Neutral /\ Abs(ret) <= NeutralBand THEN 1
            ELSE 0

\* src/kol_accuracy.py lines 1-19
IsDirectionCorrect(sentiment, ret) ==
  IF Lower(sentiment) = Positive /\ ret > 0 THEN 1
  ELSE IF Lower(sentiment) = Negative /\ ret < 0 THEN 1
       ELSE IF Lower(sentiment) = Neutral /\ Abs(ret) < NeutralBand THEN 1
            ELSE 0

\* src/kol_performance_metrics.py lines 166-184
IsDirectionCorrectMetrics(sentiment, ret) ==
  IF Lower(sentiment) = Positive /\ ret > 0 THEN 1
  ELSE IF Lower(sentiment) = Negative /\ ret < 0 THEN 1
       ELSE IF Lower(sentiment) = Neutral /\ Abs(ret) < NeutralBand THEN 1
            ELSE 0

(***************************************************************************)
(* Calls of is_direction_correct.  The analytics functions touch neither   *)
(* the cache nor the clock.                                                *)
(***************************************************************************)
Labels ==
  {Positive, Negative, Neutral,
   <<"P", "o", "s", "i", "t", "i", "v", "e">>,
   <<"P", "O", "S", "I", "T", "I", "V", "E">>,
   <<"N", "e", "g", "a", "t", "i", "v", "e">>,
   <<"N", "E", "U", "T", "R", "A", "L">>,
   <<"b", "u", "l", "l", "i", "s", "h">>,
   <<>>}

ScoreReturns == {-300, -200, -100, -99, -1, 0, 1, 99, 100, 101, 200, 300}

InitAnalytics ==
  /\ files = <<>>
  /\ now = T0
  /\ disk = "ok"
  /\ rng = [delay |-> DelayMin, jitter |-> JitterMin]
  /\ nops = 0
  /\ last = Last("init", "", "", "", 0, <<>>, NoRun)
  /\ procs = <<>>
  /\ helper = NoHelper /\ yf = NoUpstream /\ db = <<>>

\* AccuracyScorer.direction_correct: is_direction_correct, both copies
Score ==
  /\ nops = 0
  /\ \E label \in Labels, ret \in ScoreReturns :
       last' = Last("score", "", "", "", ret, label,
                    [NoRun EXCEPT !.results =
                       <<IsDirectionCorrect(label, ret),
                         IsDirectionCorrectMetrics(label, ret)>>])
  /\ nops' = nops + 1
  /\ UNCHANGED <<files, now, disk, rng, procs, helper, yf, db>>

NextScore == Score

SpecScore == InitAnalytics /\ [][NextScore]_vars

(***************************************************************************)
(* src/kol_accuracy.py: accuracy per KOL and per sentiment.  A record is   *)
(* [kol, sentiment, ret], ret the returns of horizons 1, 3 and 10, each    *)
(* [some, v]; a quotient is kept as the fraction [num, den] divided.       *)
(***************************************************************************)
NoReturn == [some |-> FALSE, v |-> 0]
Return(v) == [some |-> TRUE, v |-> v]
Frac(n, d) == [num |-> n, den |-> d]

Count(seq, Test(_)) == Cardinality({i \in 1..Len(seq) : Test(seq[i])})

\* `if record.return_h is not None: if is_direction_correct(...)`
CorrectAt(rec, k) ==
  rec.ret[k].some /\ IsDirectionCorrect(rec.sentiment, rec.ret[k].v) = 1

\* calculate_accuracy_score, lines 21-40
CalculateAccuracyScore(rec) ==
  [k \in 1..3 |-> IF rec.ret[k].some
                  THEN Return(IsDirectionCorrect(rec.sentiment, rec.ret[k].v))
                  ELSE NoReturn]

\* lines 54-91 and 109-134 for one key: the counts over the records kept,
\* and correct_h / total
Tally(mine) ==
  LET total == Len(mine)
      correct == [k \in 1..3 |-> Count(mine, LAMBDA rec : CorrectAt(rec, k))]
  IN [total |-> total,
      correct |-> correct,
      accuracy |-> [k \in 1..3 |-> IF total > 0 THEN Frac(correct[k], total)
                                   ELSE Frac(0, 1)]]

\* get_kol_performance_stats, lines 42-91
GetKolPerformanceStats(records) ==
  LET scored == SelectSeq(records, LAMBDA rec : rec.ret[1].some)
  IN [name \in {scored[i].kol : i \in 1..Len(scored)} |->
        Tally(SelectSeq(scored, LAMBDA rec : rec.kol = name))]

\* analyze_sentiment_accuracy, lines 93-136
AnalyzeSentimentAccuracy(records) ==
  LET scored == SelectSeq(records, LAMBDA rec : rec.ret[1].some)
  IN [key \in {Positive, Negative, Neutral} |->
        Tally(SelectSeq(scored, LAMBDA rec : Lower(rec.sentiment) = key))]

(***************************************************************************)
(* Calls of the accuracy aggregates on lists of records.                   *)
(***************************************************************************)
MaxRecords == 2

ReturnTriples ==
  {<<NoReturn, NoReturn, NoReturn>>,
   <<Return(200), NoReturn, NoReturn>>,
   <<Return(200), Return(300), NoReturn>>,
   <<Return(-50), Return(50), Return(200)>>}

RecordSet ==
  [kol : {"A", "B"},
   sentiment : {Positive, <<"N", "E", "U", "T", "R", "A", "L">>},
   ret : ReturnTriples]

RecordLists == UNION {[1..n -> RecordSet] : n \in 0..MaxRecords}

\* AccuracyScorer aggregates: get_kol_performance_stats,
\* analyze_sentiment_accuracy and calculate_accuracy_score per record
Accuracy ==
  /\ nops = 0
  /\ \E records \in RecordLists :
       last' = Last("accuracy", "", "", "", 0, records,
                    [NoRun EXCEPT !.results =
                       <<GetKolPerformanceStats(records),
                         AnalyzeSentimentAccuracy(records),
                         [i \in 1..Len(records) |-> CalculateAccuracyScore(records[i])]>>])
  /\ nops' = nops + 1
  /\ UNCHANGED <<files, now, disk, rng, procs, helper, yf, db>>

NextAccuracy == Accuracy

SpecAccuracy == InitAnalytics /\ [][NextAccuracy]_vars

(***************************************************************************)
(* src/kol_performance_metrics.py.  A metric is Num(n, d) for n/d, NaN, the *)
(* square root Sqrt(n, d) of a positive n/d, or Over(top, vol) for top     *)
(* divided by a positive volatility.                                       *)
(***************************************************************************)
Num(n, d) == [kind |-> "num", num |-> n, den |-> d]
NaN == [kind |-> "nan"]
Sqrt(n, d) == [kind |-> "sqrt", num |-> n, den |-> d]
Over(top, vol) == [kind |-> "over", top |-> top, vol |-> vol]

\* risk_free_rate = 0.001 and benchmark_return = 0.01, in 1/10000
RiskFreeRate == 10
BenchmarkReturn == 100

RECURSIVE SumSeq(_)
SumSeq(xs) == IF xs = <<>> THEN 0 ELSE Head(xs) + SumSeq(Tail(xs))

\* float(np.mean(returns_array))
Mean(xs) == Num(SumSeq(xs), Len(xs))

\* float(np.std(returns_array, ddof=1)): the sum of squared deviations over
\* N - 1, which is 0/0 for one value
Std(xs) ==
  LET n == Len(xs)
      ssq == SumSeq([i \in 1..n |-> (n * xs[i] - SumSeq(xs)) * (n * xs[i] - SumSeq(xs))])
  IN IF n = 1 THEN NaN
     ELSE IF ssq = 0 THEN Num(0, 1) ELSE Sqrt(ssq, n * n * (n - 1))

\* `volatility > 0`, false for nan
IsPositive(v) == v.kind = "sqrt"

\* calculate_period_metrics, lines 128-164
CalculatePeriodMetrics(xs) ==
  IF xs = <<>>
  THEN [mean_return |-> Num(0, 1), volatility |-> Num(0, 1),
        sharpe_ratio |-> Num(0, 1), information_ratio |-> Num(0, 1)]
  ELSE LET volatility == Std(xs)
       IN [mean_return |-> Mean(xs),
           volatility |-> volatility,
           sharpe_ratio |->
             IF IsPositive(volatility)
             THEN Over(Num(SumSeq(xs) - RiskFreeRate * Len(xs), Len(xs)), volatility)
             ELSE Num(0, 1),
           information_ratio |->
             IF IsPositive(volatility)
             THEN Over(Num(SumSeq(xs) - BenchmarkReturn * Len(xs), Len(xs)), volatility)
             ELSE Num(0, 1)]

\* the returns of horizon k a KOL's kept records have, in order
ReturnsAt(mine, k) ==
  LET have == SelectSeq(mine, LAMBDA rec : rec.ret[k].some)
  IN [i \in 1..Len(have) |-> have[i].ret[k].v]

\* lines 96-124 for one KOL
KolRecord(name, mine) ==
  [kol_name |-> name,
   direction_correctness_rate |->
     Frac(Count(mine, LAMBDA rec : IsDirectionCorrectMetrics(rec.sentiment, rec.ret[1].v) = 1),
          Len(mine)),
   metrics |-> [k \in 1..3 |-> CalculatePeriodMetrics(ReturnsAt(mine, k))],
   total_predictions |-> Len(mine)]

\* the record of a KOL without predictions
EmptyKolRecord(name) ==
  [kol_name |-> name,
   direction_correctness_rate |-> Frac(0, 1),
   metrics |-> [k \in 1..3 |-> CalculatePeriodMetrics(<<>>)],
   total_predictions |-> 0]

\* Variant of CalculateKolPerformanceMetrics with a record for every KOL named.
KolMetricsForEveryKol(records) ==
  LET scored == SelectSeq(records, LAMBDA rec : rec.ret[1].some)
  IN [name \in {records[i].kol : i \in 1..Len(records)} |->
        LET mine == SelectSeq(scored, LAMBDA rec : rec.kol = name)
        IN IF mine = <<>> THEN EmptyKolRecord(name) ELSE KolRecord(name, mine)]

\* calculate_kol_performance_metrics, lines 54-126
CalculateKolPerformanceMetrics(records) ==
  LET scored == SelectSeq(records, LAMBDA rec : rec.ret[1].some)
  IN [name \in {scored[i].kol : i \in 1..Len(scored)} |->
        KolRecord(name, SelectSeq(scored, LAMBDA rec : rec.kol = name))]

(***************************************************************************)
(* Calls of the performance metrics.                                       *)
(***************************************************************************)
MaxReturns == 3

ReturnLists == UNION {[1..n -> {-50, 200, 300}] : n \in 0..MaxReturns}

\* PerformanceAggregator, one horizon: calculate_period_metrics
PeriodMetrics ==
  /\ nops = 0
  /\ \E xs \in ReturnLists :
       last' = Last("period", "", "", "", 0, xs,
                    [NoRun EXCEPT !.results = <<CalculatePeriodMetrics(xs)>>])
  /\ nops' = nops + 1
  /\ UNCHANGED <<files, now, disk, rng, procs, helper, yf, db>>

\* PerformanceAggregator.aggregate: calculate_kol_performance_metrics
KolMetrics ==
  /\ nops = 0
  /\ \E records \in RecordLists :
       last' = Last("metrics", "", "", "", 0, records,
                    [NoRun EXCEPT !.results = CalculateKolPerformanceMetrics(records)])
  /\ nops' = nops + 1
  /\ UNCHANGED <<files, now, disk, rng, procs, helper, yf, db>>

NextMetrics == PeriodMetrics \/ KolMetrics

SpecMetrics == InitAnalytics /\ [][NextMetrics]_vars

(***************************************************************************)
(* src/kol_grade_system.py: calculate_kol_grade, in exact fractions.  The  *)
(* Sharpe ratio is given in 1/100, the grade is returned in 1/100 (two     *)
(* decimals, as round(grade, 2) leaves it).                                *)
(***************************************************************************)
\* w_acc = 0.5, w_sharpe = 0.3, w_sample = 0.2, in tenths
WAcc == 5
WSharpe == 3
WSample == 2
\* sample_norm = 50
SampleNorm == 50
\* sharpe / 2
SharpeFull == 2
\* grade = 100 * (...)
GradeScale == 100

RECURSIVE GCD(_, _)
GCD(a, b) == IF b = 0 THEN a ELSE GCD(b, a % b)

\* the same fraction in lowest terms
Reduce(x) ==
  LET g == GCD(Abs(x.num), x.den)
  IN Frac(x.num \div g, x.den \div g)

FAdd(x, y) == Reduce(Frac(x.num * y.den + y.num * x.den, x.den * y.den))
FMul(x, y) == Reduce(Frac(x.num * y.num, x.den * y.den))
FLe(x, y) == x.num * y.den <= y.num * x.den
FMin(x, y) == IF FLe(y, x) THEN y ELSE x
FMax(x, y) == IF FLe(x, y) THEN y ELSE x

\* round(grade, 2): the nearest 1/100, a tie going to the even one
Round2(x) ==
  LET p == x.num * 100
      fl == p \div x.den
      twice == 2 * (p - fl * x.den)
  IN IF twice < x.den THEN fl
     ELSE IF twice > x.den THEN fl + 1
          ELSE IF fl % 2 = 0 THEN fl ELSE fl + 1

\* min(sample_num / sample_norm, 1.0)
SampleScore(n) == FMin(Frac(n, SampleNorm), Frac(1, 1))

\* Variant of SharpeScore without the floor at 0.
SharpeScoreNoFloor(sharpe) ==
  FMin(Frac(sharpe, 100 * SharpeFull), Frac(1, 1))

\* Variant of SharpeScore scoring the size of the Sharpe ratio.
SharpeScoreOfSize(sharpe) ==
  FMin(Frac(Abs(sharpe), 100 * SharpeFull), Frac(1, 1))

\* min(max(sharpe / 2, 0), 1.0)
SharpeScore(sharpe) ==
  FMin(FMax(Frac(sharpe, 100 * SharpeFull), Frac(0, 1)), Frac(1, 1))

\* calculate_kol_grade, lines 1-29, with the default weights
CalculateKolGrade(accuracy, sharpe, n) ==
  Round2(FMul(Frac(GradeScale, 1),
              FAdd(FAdd(FMul(Frac(WAcc, 10), accuracy),
                        FMul(Frac(WSharpe, 10), SharpeScore(sharpe))),
                   FMul(Frac(WSample, 10), SampleScore(n)))))

(***************************************************************************)
(* Calls of calculate_kol_grade.                                           *)
(***************************************************************************)
Accuracies == {Frac(0, 1), Frac(1, 3), Frac(1, 2), Frac(2, 3), Frac(1, 1)}
Sharpes == {-150, -1, 0, 1, 100, 199, 200, 201, 350}
SampleCounts == {0, 1, 25, 49, 50, 51, 200}

\* Grader.grade: calculate_kol_grade
Grade ==
  /\ nops = 0
  /\ \E accuracy \in Accuracies, sharpe \in Sharpes, n \in SampleCounts :
       last' = Last("grade", "", "", "", n, <<accuracy, sharpe>>,
                    [NoRun EXCEPT !.results = <<CalculateKolGrade(accuracy, sharpe, n)>>])
  /\ nops' = nops + 1
  /\ UNCHANGED <<files, now, disk, rng, procs, helper, yf, db>>

NextGrade == Grade

SpecGrade == InitAnalytics /\ [][NextGrade]_vars

(***************************************************************************)
(* _save_to_cache and _load_from_cache run by several processes on one     *)
(* cache directory (every program of the repository opens the directory    *)
(* "yfinance_cache").  Here a file is the sequence of the chunks written   *)
(* to it; pickle.dump writes the stream of a table in one chunk per row,   *)
(* each process at its own file offset.  There is no lock and no rename.   *)
(***************************************************************************)
RaceKey == CachePath("AAPL", "2024-01-01", "2024-01-31")

\* chunk i of the pickle stream of a table
Cell(rows, i) == [of |-> rows, part |-> i]

\* what a write past the end of the file leaves in between
Hole == Cell(<<>>, 0)

\* pickle.dump(data, f): the stream
Chunks(rows) == [i \in 1..Len(rows) |-> Cell(rows, i)]

Raw(cells) == [fmt |-> "raw", rows |-> cells]

\* f.write at offset pos of a file holding cells
WriteAt(cells, pos, cell) ==
  [i \in 1..(IF Len(cells) > pos + 1 THEN Len(cells) ELSE pos + 1) |->
     IF i = pos + 1 THEN cell
     ELSE IF i <= Len(cells) THEN cells[i] ELSE Hole]

\* the file starts with chunks 1..n of streams of n chunks
WellFormed(cells) ==
  /\ cells # <<>>
  /\ LET n == Len(cells[1].of)
     IN /\ n >= 1 /\ Len(cells) >= n
        /\ \A k \in 1..n : cells[k].part = k /\ Len(cells[k].of) = n

\* the chunks pickle.load reads all come from one stream
OneStream(cells) ==
  \A k \in 1..Len(cells[1].of) : cells[k].of = cells[1].of

\* what pickle.load can make of the file: an exception on a stream that is
\* cut short, the table of a whole stream (what follows its end is not
\* read), and for chunks of several streams either an exception or the
\* table the chunks spell
Decodings(blob) ==
  IF blob.fmt # "raw" THEN {blob}
  ELSE IF ~WellFormed(blob.rows) THEN {Truncated}
       ELSE IF OneStream(blob.rows) THEN {Pickle(blob.rows[1].of)}
            ELSE {Truncated,
                  Pickle([k \in 1..Len(blob.rows[1].of) |-> blob.rows[k].of[k]])}

Writers == {"w1", "w2"}
TableOf(w) == IF w = "w1" THEN <<Row(1, 8), Row(2, 8)>> ELSE <<Row(1, 9), Row(2, 9)>>
OldTable == <<Row(1, 7)>>

MaxReads == 2

InitRace ==
  /\ files \in {<<>>, RaceKey :> [blob |-> Raw(Chunks(OldTable)), mtime |-> T0]}
  /\ now = T0
  /\ disk = "ok"
  /\ rng = [delay |-> DelayMin, jitter |-> JitterMin]
  /\ nops = 0
  /\ last = Last("init", "", "", "", 0, <<>>, NoRun)
  /\ procs = [w \in Writers |-> [pc |-> "idle", pos |-> 0, reads |-> 0, got |-> None]]
               @@ ("reader" :> [pc |-> "reading", pos |-> 0, reads |-> 0, got |-> None])
  /\ helper = NoHelper /\ yf = NoUpstream /\ db = <<>>

\* open(cache_path, 'wb'): the file is created, or cut to length 0
OpenForWrite(w) ==
  /\ procs[w].pc = "idle"
  /\ files' = (RaceKey :> [blob |-> Raw(<<>>), mtime |-> now]) @@ files
  /\ procs' = [procs EXCEPT ![w].pc = "open"]
  /\ UNCHANGED <<now, disk, rng, nops, last, helper, yf, db>>

\* pickle.dump(data, f): the next chunk reaches the file
WriteChunk(w) ==
  /\ procs[w].pc = "open"
  /\ procs[w].pos < Len(Chunks(TableOf(w)))
  /\ files' = [files EXCEPT ![RaceKey] =
                 [blob |-> Raw(WriteAt(files[RaceKey].blob.rows, procs[w].pos,
                                       Chunks(TableOf(w))[procs[w].pos + 1])),
                  mtime |-> now]]
  /\ procs' = [procs EXCEPT ![w].pos = @ + 1]
  /\ UNCHANGED <<now, disk, rng, nops, last, helper, yf, db>>

\* the end of the with block
CloseFile(w) ==
  /\ procs[w].pc = "open"
  /\ procs[w].pos = Len(Chunks(TableOf(w)))
  /\ procs' = [procs EXCEPT ![w].pc = "done"]
  /\ UNCHANGED <<files, now, disk, rng, nops, last, helper, yf, db>>

\* _load_from_cache by another process
ReadEntry ==
  /\ procs["reader"].reads < MaxReads
  /\ \E blob \in IF RaceKey \in DOMAIN files THEN Decodings(files[RaceKey].blob)
                 ELSE {Truncated} :
       procs' = [procs EXCEPT
                   !["reader"].reads = @ + 1,
                   !["reader"].got =
                     LoadFromCache([p \in DOMAIN files |->
                                      [blob |-> blob, mtime |-> files[p].mtime]],
                                   now, disk, "AAPL", "2024-01-01", "2024-01-31")]
  /\ UNCHANGED <<files, now, disk, rng, nops, last, helper, yf, db>>

NextRace ==
  \/ \E w \in Writers : OpenForWrite(w) \/ WriteChunk(w) \/ CloseFile(w)
  \/ ReadEntry

SpecRace == InitRace /\ [][NextRace]_vars

(***************************************************************************)
(* The compatibility check of the constructor and the keyword arguments    *)
(* of the upstream calls.  Keyword arguments are a function from the       *)
(* parameter's name to its value, written as a string.                     *)
(***************************************************************************)
OptionalParams == {"show_errors", "session"}

\* lines 63-76: what inspect.signature(yf.download) shows, or both flags
\* False when it raises
CheckYfinanceCompatibility(h, up) ==
  [h EXCEPT !.supports_show_errors = up.inspectable /\ "show_errors" \in up.params,
            !.supports_session = up.inspectable /\ "session" \in up.params,
            !.probes = @ + 1,
            !.found = IF up.inspectable THEN up.params ELSE {}]

\* lines 19-41: _setup_session, then _check_yfinance_compatibility
NewHelper(up) ==
  CheckYfinanceCompatibility([NoHelper EXCEPT !.built = TRUE, !.session = TRUE], up)

\* lines 159-164: base_kwargs of get_stock_data
BaseKwargs(s, e) ==
  [start |-> s, end |-> e, progress |-> "False", threads |-> "False"]

\* lines 285-291: base_kwargs of _batch_download_bulk
BulkBaseKwargs(s, e) ==
  [start |-> s, end |-> e, progress |-> "False", threads |-> "True",
   group_by |-> "ticker"]

\* Variant of GetDownloadKwargs that looks at the signature again.
GetDownloadKwargsFromSignature(h, base) ==
  LET k1 == IF yf.inspectable /\ "show_errors" \in yf.params
            THEN ("show_errors" :> "False") @@ base ELSE base
  IN IF yf.inspectable /\ "session" \in yf.params /\ h.session
     THEN ("session" :> "session") @@ k1 ELSE k1

\* lines 78-89
GetDownloadKwargs(h, base) ==
  LET k1 == IF h.supports_show_errors
            THEN ("show_errors" :> "False") @@ base ELSE base
  IN IF h.supports_session /\ h.session
     THEN ("session" :> "session") @@ k1 ELSE k1

\* yf.download(..., **kwargs) raises TypeError on a keyword it does not have
Accepts(up, kwargs) == (DOMAIN kwargs \cap OptionalParams) \subseteq up.params
TypeErrorText == {"unexpected keyword argument"}

\* lines 167 and 294: the calls of a run as the module receives them
CallsOf(trace, h, s, e) ==
  LET ups == SelectSeq(trace, LAMBDA x : x.ev \in {"bulk", "download"})
  IN [i \in 1..Len(ups) |->
        [who |-> ups[i].who, multi |-> ups[i].ev = "bulk",
         kwargs |-> GetDownloadKwargs(h, IF ups[i].ev = "bulk"
                                         THEN BulkBaseKwargs(s, e)
                                         ELSE BaseKwargs(s, e))]]

ProbeTickers == <<"AAPL", "MSFT">>

\* what the upstream does with the calls of a batch run
ProbeScripts(bs, ok) ==
  [bulk : [1..NumBatches(Len(ProbeTickers), bs) ->
             IF ok THEN {"raise", "table"} ELSE {"raise"}],
   avail : [{"AAPL", "MSFT"} -> IF ok THEN {"data"} ELSE {"error"}]]

InitProbe ==
  /\ files = <<>>
  /\ now = T0
  /\ disk = "ok"
  /\ rng = [delay |-> DelayMin, jitter |-> JitterMin]
  /\ nops = 0
  /\ last = Last("init", "", "", "", 0, <<>>, NoRun)
  /\ procs = <<>>
  /\ helper = NoHelper
  /\ yf \in [params : SUBSET OptionalParams, inspectable : BOOLEAN, calls : {<<>>}]
  /\ db = <<>>

\* YFinanceHelper(...)
Construct ==
  /\ ~helper.built
  /\ helper' = NewHelper(yf)
  /\ UNCHANGED <<files, now, disk, rng, nops, last, procs, yf, db>>

\* another yfinance takes the module's place under the running helper
\* (a reload, a patch of yf.download)
Repatch ==
  /\ nops < MaxOps
  /\ \E ps \in (SUBSET OptionalParams) \ {yf.params} :
       yf' = [yf EXCEPT !.params = ps]
  /\ nops' = nops + 1
  /\ UNCHANGED <<files, now, disk, rng, last, procs, helper, db>>

\* get_stock_data on the built helper
FetchWith ==
  /\ helper.built
  /\ nops < MaxOps
  /\ \E mr \in 1..MaxRetriesArg :
       LET kw == GetDownloadKwargs(helper, BaseKwargs("2024-01-01", "2024-01-31"))
           up == IF Accepts(yf, kw)
                 THEN {Table(Quote("AAPL", "2024-01-01", "2024-01-31")),
                       Raise(RateLimitText)}
                 ELSE {Raise(TypeErrorText)}
       IN \E run \in GetStockData(files, now,
                       Call("AAPL", "2024-01-01", "2024-01-31", mr, disk, rng, up)) :
            /\ files' = run.files
            /\ now' = run.now
            /\ last' = Last("fetch", "AAPL", "2024-01-01", "2024-01-31", mr, <<>>, run)
            /\ yf' = [yf EXCEPT !.calls =
                        @ \o CallsOf(run.trace, helper, "2024-01-01", "2024-01-31")]
  /\ nops' = nops + 1
  /\ UNCHANGED <<disk, rng, procs, helper, db>>

\* batch_get_stock_data(..., use_bulk_download=True) on the built helper
AcquireWith ==
  /\ helper.built
  /\ nops < MaxOps
  /\ \E bs \in 1..MaxBatchSize :
       LET kw == GetDownloadKwargs(helper, BulkBaseKwargs("2024-01-01", "2024-01-31"))
       IN \E script \in ProbeScripts(bs, Accepts(yf, kw)) :
            \E run \in BatchGetStockData(files, now,
                         [tickers |-> ProbeTickers, s |-> "2024-01-01",
                          e |-> "2024-01-31", bs |-> bs, delay |-> BatchDelay,
                          bulk |-> TRUE, disk |-> disk, rnd |-> rng,
                          script |-> script]) :
              /\ files' = run.files
              /\ now' = run.now
              /\ last' = [Last("batch", "", "2024-01-01", "2024-01-31", bs, <<>>, run)
                            EXCEPT !.tickers = ProbeTickers, !.bulk = TRUE]
              /\ yf' = [yf EXCEPT !.calls =
                          @ \o CallsOf(run.trace, helper, "2024-01-01", "2024-01-31")]
  /\ nops' = nops + 1
  /\ UNCHANGED <<disk, rng, procs, helper, db>>

NextProbe == Construct \/ Repatch \/ FetchWith \/ AcquireWith

SpecProbe == InitProbe /\ [][NextProbe]_vars

(***************************************************************************)
(* update_returns_for_existing_records over the rows of kol_sentiment.     *)
(***************************************************************************)
MaxStored == 2

\* initial_price IS NULL
NoPrice == -1
NoReturns == <<Absent, Absent, Absent>>

StoredRow(t, d, p0, r) ==
  [ticker |-> t, prediction_time |-> d, initial_price |-> p0, returns |-> r]

\* rows insert_record_with_returns stores (lines 125-132): a price, and the
\* returns calculate_returns gave from a table of n bars; and a row without
\* a price, which the nullable column allows another writer to store
StoredRows ==
  {StoredRow("AAPL", d, 100, [k \in 1..3 |-> ReturnAt(Series(n), Horizons[k], 100)]) :
     d \in InitialDates, n \in {1, 2, 11}}
  \cup {StoredRow("AAPL", "2024-01-01", NoPrice, NoReturns)}

\* lines 141-143: filter(KOLSentiment.return_1d.isnot(None)).all()
SelectedRecords(rows) == {i \in 1..Len(rows) : rows[i].returns[1] # Absent}

\* lines 145-151: one selected record
UpdateOne(x, i, dsk, rnd, up) ==
  IF x.db[i].initial_price = NoPrice
  THEN {[x EXCEPT !.results = Append(@, i)]}
  ELSE {[db |-> [x.db EXCEPT ![i].returns = run.results],
         files |-> run.files, now |-> run.now,
         trace |-> x.trace \o run.trace, results |-> Append(x.results, i)] :
          run \in CalculateReturns(x.files, x.now, dsk, rnd, up, x.db[i].ticker,
                                   x.db[i].prediction_time, x.db[i].initial_price)}

RECURSIVE UpdateEach(_, _, _, _, _, _)
\* line 144: for record in records
UpdateEach(S, sel, i, dsk, rnd, up) ==
  IF \A x \in S : i > Len(x.db) THEN S
  ELSE UpdateEach(IF i \in sel
                  THEN UNION {UpdateOne(x, i, dsk, rnd, up) : x \in S}
                  ELSE S,
                  sel, i + 1, dsk, rnd, up)

\* lines 137-154; results lists the records the query returned
UpdateReturnsForExistingRecords(rows, fs, clock, dsk, rnd, up) ==
  LET x0 == [db |-> rows, files |-> fs, now |-> clock, trace |-> <<>>,
             results |-> <<>>]
  IN {[out |-> None, raised |-> FALSE, db |-> x.db, files |-> x.files,
       now |-> x.now, trace |-> x.trace, results |-> x.results] :
        x \in UpdateEach({x0}, SelectedRecords(rows), 1, dsk, rnd, up)}

UpstreamUpdate ==
  {{Raise(OtherErrorText)}, {Table(<<>>)}, {Table(Series(2))}, {Table(Series(11))}}

RECURSIVE RowLists(_)
RowLists(n) ==
  IF n = 0 THEN {<<>>}
  ELSE RowLists(n - 1) \cup
       {Append(l, r) : l \in {x \in RowLists(n - 1) : Len(x) = n - 1}, r \in StoredRows}

InitUpdate ==
  /\ files = <<>>
  /\ now = T0
  /\ disk = "ok"
  /\ rng = [delay |-> DelayMin, jitter |-> JitterMin]
  /\ nops = 0
  /\ last = Last("init", "", "", "", 0, <<>>, NoRun)
  /\ procs = <<>>
  /\ helper = NoHelper /\ yf = NoUpstream
  /\ db \in RowLists(MaxStored) \ {<<>>}

\* KOLSentimentDB.update_returns_for_existing_records
UpdateReturns ==
  /\ nops = 0
  /\ \E up \in UpstreamUpdate :
       \E run \in UpdateReturnsForExistingRecords(db, files, now, disk, rng, up) :
         /\ db' = run.db
         /\ files' = run.files
         /\ now' = run.now
         /\ last' = Last("update", "", "", "", 0, db, run)
  /\ nops' = nops + 1
  /\ UNCHANGED <<disk, rng, procs, helper, yf>>

NextUpdate == UpdateReturns

SpecUpdate == InitUpdate /\ [][NextUpdate]_vars

(***************************************************************************)
(* Properties of the cache and of get_stock_data.                          *)
(***************************************************************************)
LastPath == CachePath(last.t, last.s, last.e)

\* a file holding a complete pickle, younger than the TTL
FreshEntry(fs, clock, path) ==
  /\ path \in DOMAIN fs
  /\ fs[path].blob.fmt = "pkl"
  /\ clock - fs[path].mtime < TTL

\* the other keys of the same ticker
OtherPaths(t, s, e) ==
  {CachePath(t, s2, e2) : s2 \in StartDates, e2 \in EndDates} \ {CachePath(t, s, e)}

\* C1: a fetch whose key has a readable entry younger than the TTL (local
\* storage working) returns the cached table and calls the upstream zero
\* times, whatever max_retries is.
C1_FreshHitNoUpstream ==
  (/\ last.op = "fetch"
   /\ last.disk = "ok"
   /\ FreshEntry(last.pre, last.now0, LastPath))
  => /\ last.out = Some(last.pre[LastPath].blob.rows)
     /\ NumCalls(last.trace) = 0
     /\ ~last.raised

C1_Witness ==
  /\ last.op = "fetch"
  /\ last.disk = "ok"
  /\ FreshEntry(last.pre, last.now0, LastPath)
  /\ last.arg = 0
  /\ last.now0 - last.pre[LastPath].mtime = TTL - 1
  /\ ~last.out.isNone

\* C2: get returns a table only when a file exists under exactly the
\* requested (ticker, start, end) and its age is strictly below the TTL, and
\* then it returns that file's table; a file exactly TTL old, or a file under
\* another range of the same ticker, is a miss.
C2_GetOnlyExactAndFresh ==
  last.op = "get" =>
    /\ ~last.out.isNone =>
         /\ LastPath \in DOMAIN last.pre
         /\ last.now0 - last.pre[LastPath].mtime < TTL
         /\ last.out.rows = last.pre[LastPath].blob.rows
    /\ (LastPath \in DOMAIN last.pre /\ last.now0 - last.pre[LastPath].mtime >= TTL)
         => last.out.isNone
    /\ LastPath \notin DOMAIN last.pre => last.out.isNone

\* a get that misses on a file exactly TTL old, after the clock moved
C2_Witness ==
  /\ last.op = "get"
  /\ LastPath \in DOMAIN last.pre
  /\ last.pre[LastPath].blob.fmt = "pkl"
  /\ last.now0 - last.pre[LastPath].mtime = TTL
  /\ last.now0 > T0
  /\ last.disk = "ok"
  /\ last.out.isNone

\* C3: with local storage working, a get (or a fetch) of the same key that
\* directly follows put(ticker, start, end, S) returns exactly S, the fetch
\* without an upstream call; this holds whatever the key held before the
\* put, so a later put overwrites an earlier one.
PutThenRead(op) ==
  /\ last.op = "put"
  /\ last.disk = "ok"
  /\ disk = "ok"
  /\ now = last.now0
  /\ last'.op = op
  /\ last'.t = last.t /\ last'.s = last.s /\ last'.e = last.e

C3_PutGetRoundTrip ==
  [][/\ PutThenRead("get") => last'.out = Some(last.rows)
     /\ PutThenRead("fetch") =>
          (last'.out = Some(last.rows) /\ NumCalls(last'.trace) = 0)]_vars

\* a get that returned a table only put can have stored, right after the put
C3_Witness ==
  /\ last.op = "get"
  /\ nops = 2
  /\ last.now0 = T0
  /\ last.out = Some(<<Row(1, 8)>>)
  /\ \E p \in DOMAIN last.pre : last.pre[p].mtime = T0 /\ p = LastPath

\* the upstream calls of the last operation, in order
Calls == Downloads(last.trace)

\* C4 as stated: after an upstream attempt that returned an empty table the
\* call makes no further upstream attempt.
C4_EmptyEndsTheCall ==
  last.op = "fetch" =>
    \A i \in 1..Len(Calls) : Calls[i].kind = "empty" => i = Len(Calls)

\* C4 as amended: an empty table is handled as one more failed attempt, with
\* no failure-specific wait: the next attempt follows whenever one remains,
\* and the call returns absent after an empty table only when that was the
\* last of the max_retries attempts.
C4_EmptyIsRetried ==
  last.op = "fetch" =>
    \A i \in 1..Len(Calls) :
      Calls[i].kind = "empty" =>
        /\ Calls[i].attempt = i - 1
        /\ IF i < last.arg
           THEN Len(Calls) > i /\ Calls[i + 1].attempt = i
           ELSE i = Len(Calls) /\ last.out.isNone

C4_Witness ==
  /\ last.op = "fetch"
  /\ last.arg = 2
  /\ Len(Calls) = 2
  /\ Calls[1].kind = "empty"
  /\ Calls[2].kind = "data"
  /\ ~last.out.isNone

\* C5: for max_retries >= 1 and any upstream outcomes the call ends, after
\* at most max_retries upstream calls, with a non-empty table or with absent,
\* never with an exception; when no attempt produced a non-empty table it
\* returns absent.
C5_FetchEndsWithTableOrAbsent ==
  (last.op = "fetch" /\ last.arg >= 1) =>
    /\ ~last.raised
    /\ Len(Calls) <= last.arg
    /\ last.out.isNone \/ ~Empty(last.out.rows)
    /\ (Len(Calls) > 0 /\ \A i \in 1..Len(Calls) : Calls[i].kind # "data")
         => last.out.isNone

\* every attempt failed, the last one with an exception that is no rate limit
C5_Witness ==
  /\ last.op = "fetch"
  /\ last.arg = 2
  /\ Len(Calls) = 2
  /\ Calls[1].kind = "ratelimit"
  /\ Calls[2].kind = "error"
  /\ last.out.isNone
  /\ ~last.raised

\* C6: a fetch that got a non-empty table S from the upstream (local storage
\* working) has, when it returns S, stored S under exactly its own key with
\* the time of the write and left every other file alone, so a further fetch
\* of the key at any age below the TTL returns S without an upstream call.
C6_WriteThrough ==
  (/\ last.op = "fetch"
   /\ last.disk = "ok"
   /\ Len(Calls) > 0
   /\ ~last.out.isNone
   /\ nops = last.nops)
  => /\ LastPath \in DOMAIN files
     /\ files[LastPath] = [blob |-> Pickle(last.out.rows), mtime |-> now]
     /\ \A p \in DOMAIN last.pre \ {LastPath} :
          p \in DOMAIN files /\ files[p] = last.pre[p]
     /\ DOMAIN files \subseteq DOMAIN last.pre \cup {LastPath}
     /\ \A d \in {0, 1, TTL - 1}, mr \in 0..MaxRetriesArg :
          \A run \in GetStockData(files, now + d,
                                  Call(last.t, last.s, last.e, mr, "ok", rng,
                                       Upstream(last.t, last.s, last.e))) :
            run.out = last.out /\ NumCalls(run.trace) = 0

C6_Witness ==
  /\ last.op = "fetch"
  /\ last.disk = "ok"
  /\ nops = last.nops
  /\ Len(Calls) = 2
  /\ Calls[2].kind = "data"
  /\ LastPath \in DOMAIN last.pre
  /\ last.out = Some(Quote(last.t, last.s, last.e))

(***************************************************************************)
(* Properties of batch_get_stock_data.                                     *)
(***************************************************************************)
TickerSet(seq) == {seq[k] : k \in 1..Len(seq)}

\* the per-ticker path is entered for ticker t in batch idx after position i
FetchedAfter(trace, i, t, idx) ==
  \E j \in (i + 1)..Len(trace) :
    trace[j].ev = "fetch" /\ trace[j].who = <<t>> /\ trace[j].attempt = idx

\* C7: with the bulk path chosen, whenever the multi-ticker call of a batch
\* raises or returns an empty table, every cache-miss ticker of that batch
\* is then attempted through get_stock_data.
C7_BulkFailureFallsBack ==
  (last.op = "batch" /\ last.bulk) =>
    \A i \in 1..Len(last.trace) :
      (last.trace[i].ev = "bulk" /\ last.trace[i].kind \in {"raise", "emptytable"}) =>
        \A t \in TickerSet(last.trace[i].who) :
          FetchedAfter(last.trace, i, t, last.trace[i].attempt)

\* C7, the diverging run: the multi-ticker call returned an empty table, no
\* ticker of the batch was attempted on its own and none is in the result.
C7_Witness ==
  /\ last.op = "batch" /\ last.bulk /\ ~last.raised
  /\ \E i \in 1..Len(last.trace) :
       /\ last.trace[i].ev = "bulk" /\ last.trace[i].kind = "emptytable"
       /\ Len(last.trace[i].who) = 2
       /\ \A t \in TickerSet(last.trace[i].who) :
            /\ ~FetchedAfter(last.trace, i, t, last.trace[i].attempt)
            /\ t \notin DOMAIN last.results

\* C8: for batch_size >= 1, batch_get_stock_data does not raise, and its
\* result maps only tickers of the input, each to a table that is not empty.
C8_BatchNeverRaises ==
  (last.op = "batch" /\ last.arg >= 1) =>
    /\ ~last.raised
    /\ DOMAIN last.results \subseteq TickerSet(last.tickers)
    /\ \A t \in DOMAIN last.results : ~Empty(last.results[t])

\* C8: a call whose multi-ticker call raised, with one ticker resolved and
\* another missing from the result.
C8_Witness ==
  /\ last.op = "batch" /\ last.arg >= 1 /\ ~last.raised
  /\ \E i \in 1..Len(last.trace) :
       last.trace[i].ev = "bulk" /\ last.trace[i].kind = "raise"
  /\ DOMAIN last.results # {}
  /\ TickerSet(last.tickers) \ DOMAIN last.results # {}

(***************************************************************************)
(* Properties of calculate_returns.                                        *)
(***************************************************************************)
Present(r) == r.kind # "none"

\* C9: when the price series has L >= 1 bars, the return of horizon h (1, 3
\* or 10) is present exactly when L > h.
C9_PresentIffLonger ==
  (last.op = "returns" /\ ~last.out.isNone /\ Len(last.out.rows) >= 1) =>
    \A k \in 1..3 : Present(last.results[k]) <=> Len(last.out.rows) > Horizons[k]

\* C9: a series of 4 bars gave the 1-day and 3-day returns and no 10-day one.
C9_Witness ==
  /\ last.op = "returns" /\ last.arg # 0
  /\ ~last.out.isNone /\ Len(last.out.rows) = 4
  /\ Present(last.results[1]) /\ Present(last.results[2])
  /\ ~Present(last.results[3])

\* C10: calculate_returns with an entry price of 0 fails with an error.
C10_ZeroPriceRaises ==
  (last.op = "returns" /\ last.arg = 0) => last.raised

\* C10, the diverging run: entry price 0, nothing raised, an infinite return.
C10_Witness ==
  /\ last.op = "returns" /\ last.arg = 0 /\ ~last.raised
  /\ last.results[1].kind = "inf"

(***************************************************************************)
(* Properties of get_stock_price_on_date.                                  *)
(***************************************************************************)
\* distance in calendar days between a bar and the target's date
CalendarDistance(row, ts) == Abs(row.date - (ts \div Day))

\* the bar the entry price is to come from: the closest by calendar date,
\* the earlier one of two equally close
NearestBar(rows, ts) ==
  CHOOSE i \in 1..Len(rows) :
    \A j \in 1..Len(rows) :
      \/ CalendarDistance(rows[i], ts) < CalendarDistance(rows[j], ts)
      \/ /\ CalendarDistance(rows[i], ts) = CalendarDistance(rows[j], ts)
         /\ rows[i].date <= rows[j].date

\* C11: for a series that is not empty and any target datetime, the price is
\* the close of the bar of the target date if there is one, else of the bar
\* nearest in calendar days, the earlier of two equally near.
C11_NearestCalendarBar ==
  (last.op = "price" /\ ~last.out.isNone /\ ~Empty(last.out.rows)) =>
    last.results = <<last.out.rows[NearestBar(last.out.rows, last.arg)].close>>

\* C11, the diverging run: the target is Saturday the 13th at 01:00, the
\* bars are Friday the 12th and Monday the 15th, and Monday's close is returned.
C11_Witness ==
  /\ last.op = "price" /\ last.arg = 13 * Day + 3600
  /\ ~last.out.isNone /\ last.out.rows = Ascending({12, 15})
  /\ last.results = <<115>>

\* With a target at midnight the code's choice is the nearest calendar bar.
MidnightTargetsResolveNearest ==
  (last.op = "price" /\ last.arg % Day = 0 /\ ~last.out.isNone
     /\ ~Empty(last.out.rows)) =>
    last.results = <<last.out.rows[NearestBar(last.out.rows, last.arg)].close>>

(***************************************************************************)
(* Properties of is_direction_correct.                                     *)
(***************************************************************************)
\* the label read without regard to case, by its letters
SameLetters(label, word) ==
  /\ Len(label) = Len(word)
  /\ \A k \in 1..Len(word) :
       \/ label[k] = word[k]
       \/ \E u \in 1..Len(UpperCase) : label[k] = UpperCase[u] /\ word[k] = LowerCase[u]

\* C12: is_direction_correct is 1 exactly when the label is positive and the
\* return is above 0, or negative and below 0, or neutral and strictly
\* inside the 0.01 band, whatever the label's case; else it is 0.
C12_DirectionCorrect ==
  last.op = "score" =>
    LET want == \/ SameLetters(last.rows, Positive) /\ last.arg > 0
                \/ SameLetters(last.rows, Negative) /\ last.arg < 0
                \/ SameLetters(last.rows, Neutral) /\ -100 < last.arg /\ last.arg < 100
    IN last.results = IF want THEN <<1, 1>> ELSE <<0, 0>>

\* C12: a neutral call in capitals with a return of exactly 0.01, scored 0.
C12_Witness ==
  /\ last.op = "score"
  /\ last.rows = <<"N", "E", "U", "T", "R", "A", "L">>
  /\ last.arg = 100
  /\ last.results = <<0, 0>>

(***************************************************************************)
(* Properties of the accuracy aggregates.                                  *)
(***************************************************************************)
\* the records of one KOL, and of one sentiment
RecordsOfKol(records, name) == SelectSeq(records, LAMBDA rec : rec.kol = name)
RecordsOfSentiment(records, key) ==
  SelectSeq(records, LAMBDA rec : Lower(rec.sentiment) = key)

\* the fraction is correct calls at horizon k over records with a return at k
OverPresent(frac, mine, k) ==
  LET present == Count(mine, LAMBDA rec : rec.ret[k].some)
      correct == Count(mine, LAMBDA rec : CorrectAt(rec, k))
  IN present > 0 => frac.num * present = correct * frac.den

\* C13: a record whose return at a horizon is absent is not scored at that
\* horizon, and every accuracy, per KOL and per sentiment, is the correct
\* calls at the horizon over the number of records with a return there.
C13_AbsentNotInDenominator ==
  last.op = "accuracy" =>
    /\ \A i \in 1..Len(last.rows), k \in 1..3 :
         ~last.rows[i].ret[k].some => ~last.results[3][i][k].some
    /\ \A name \in DOMAIN last.results[1], k \in 1..3 :
         OverPresent(last.results[1][name].accuracy[k],
                     RecordsOfKol(last.rows, name), k)
    /\ \A key \in DOMAIN last.results[2], k \in 1..3 :
         OverPresent(last.results[2][key].accuracy[k],
                     RecordsOfSentiment(last.rows, key), k)

\* C13, the diverging run: KOL A made two positive calls, both right at one
\* day; only one has a 3-day return, it is right, and accuracy_3d is 1/2.
C13_Witness ==
  /\ last.op = "accuracy"
  /\ last.rows = <<[kol |-> "A", sentiment |-> Positive,
                    ret |-> <<Return(200), NoReturn, NoReturn>>],
                   [kol |-> "A", sentiment |-> Positive,
                    ret |-> <<Return(200), Return(300), NoReturn>>]>>
  /\ last.results[1]["A"].accuracy[2] = Frac(1, 2)

(***************************************************************************)
(* Properties of the performance metrics.                                  *)
(***************************************************************************)
IsZero(v) == v.kind = "num" /\ v.num = 0

ZeroRisk(pm) ==
  IsZero(pm.volatility) /\ IsZero(pm.sharpe_ratio) /\ IsZero(pm.information_ratio)

\* C14: a horizon with fewer than two returns, none or exactly one, has
\* volatility, Sharpe ratio and information ratio all equal to the number 0.
C14_FewReturnsZeroRisk ==
  /\ (last.op = "period" /\ Len(last.rows) < 2) => ZeroRisk(last.results[1])
  /\ last.op = "metrics" =>
       \A name \in DOMAIN last.results, k \in 1..3 :
         Len(ReturnsAt(RecordsOfKol(last.rows, name), k)) < 2 =>
           ZeroRisk(last.results[name].metrics[k])

\* C14, the diverging run: one return of 0.02, and a volatility that is nan.
C14_Witness ==
  /\ last.op = "period" /\ last.rows = <<200>>
  /\ last.results[1].volatility = NaN
  /\ IsZero(last.results[1].sharpe_ratio)

\* the KOLs named in the records that have no record with a 1-day return
Unscored(records) ==
  {records[i].kol : i \in 1..Len(records)} \
    {records[i].kol : i \in {j \in 1..Len(records) : records[j].ret[1].some}}

\* C15 as claimed: a KOL without a scored record gets a record whose metrics
\* are all 0 and whose total_predictions is 0.
C15_UnscoredKolGetsZeroRecord ==
  last.op = "metrics" =>
    \A name \in Unscored(last.rows) :
      /\ name \in DOMAIN last.results
      /\ last.results[name] = EmptyKolRecord(name)

\* C15: a KOL without a scored record has no record in the result, which
\* holds exactly the KOLs with one, each with total_predictions >= 1; the
\* call does not raise.
C15_UnscoredKolIsLeftOut ==
  last.op = "metrics" =>
    /\ ~last.raised
    /\ DOMAIN last.results =
         {last.rows[i].kol : i \in 1..Len(last.rows)} \ Unscored(last.rows)
    /\ \A name \in DOMAIN last.results : last.results[name].total_predictions >= 1

\* C15: KOL B has only a record without returns, KOL A a scored one.
C15_Witness ==
  /\ last.op = "metrics"
  /\ Unscored(last.rows) = {"B"}
  /\ DOMAIN last.results = {"A"}

(***************************************************************************)
(* Properties of calculate_kol_grade.                                      *)
(***************************************************************************)
\* C16: the grade lies in [0, 100]; a Sharpe ratio of 0 or less grades as
\* 0 does, one of 2 or more as 2 does, and 50 samples or more as 50 do.
C16_GradeInRange ==
  last.op = "grade" =>
    LET accuracy == last.rows[1]
        sharpe == last.rows[2]
        grade == last.results[1]
    IN /\ 0 <= grade /\ grade <= 100 * 100
       /\ sharpe <= 0 => grade = CalculateKolGrade(accuracy, 0, last.arg)
       /\ sharpe >= 200 => grade = CalculateKolGrade(accuracy, 200, last.arg)
       /\ last.arg >= 50 => grade = CalculateKolGrade(accuracy, sharpe, 50)

\* C16: accuracy 2/3, a Sharpe ratio of 3.5 and 200 samples grade 83.33.
C16_Witness ==
  /\ last.op = "grade"
  /\ last.rows = <<Frac(2, 3), 350>> /\ last.arg = 200
  /\ last.results = <<8333>>

\* C17: the grade does not decrease when the accuracy or the Sharpe ratio
\* grows with the other inputs fixed, and accuracy 1, Sharpe 2 and 50
\* samples grade exactly 100.
C17_GradeMonotone ==
  last.op = "grade" =>
    LET accuracy == last.rows[1]
        sharpe == last.rows[2]
        grade == last.results[1]
    IN /\ \A higher \in Accuracies :
            FLe(accuracy, higher) => grade <= CalculateKolGrade(higher, sharpe, last.arg)
       /\ \A higher \in Sharpes :
            sharpe <= higher => grade <= CalculateKolGrade(accuracy, higher, last.arg)
       /\ (accuracy = Frac(1, 1) /\ sharpe = 200 /\ last.arg = 50) => grade = 100 * 100

\* C17: the grade of accuracy 1, Sharpe 2 and 50 samples, 100.00.
C17_Witness ==
  /\ last.op = "grade"
  /\ last.rows = <<Frac(1, 1), 200>> /\ last.arg = 50
  /\ last.results = <<10000>>

(***************************************************************************)
(* Properties of clear_cache.                                              *)
(***************************************************************************)
\* the files of the directory before the call that are older than the limit
TooOld == {p \in DOMAIN last.pre :
             last.now0 - last.pre[p].mtime > last.arg * 24 * 3600}

\* what clear_cache did to the directory: the files older than the limit
\* are gone, the others are as they were
PurgedTheOld ==
  /\ DOMAIN files = DOMAIN last.pre \ TooOld
  /\ \A p \in DOMAIN files : files[p] = last.pre[p]

\* C18 as claimed: clear_cache removes the entries older than the limit,
\* leaves the others untouched and returns the number removed.
C18_PurgeReturnsCount ==
  (last.op = "purge" /\ ~last.raised) =>
    /\ PurgedTheOld
    /\ last.results = <<Cardinality(TooOld)>>

\* C18: clear_cache removes the entries older than the limit, leaves the
\* others untouched, prints the number removed and returns nothing.
C18_PurgePrintsCount ==
  (last.op = "purge" /\ ~last.raised) =>
    /\ PurgedTheOld
    /\ last.trace = <<Printed(Cardinality(TooOld))>>
    /\ last.results = <<>>

\* C18: a purge that removed one entry and kept another.
C18_Witness ==
  /\ last.op = "purge" /\ ~last.raised
  /\ Cardinality(TooOld) = 1
  /\ Cardinality(DOMAIN files) = 1

(***************************************************************************)
(* Cache I/O failures inside get_stock_data.                               *)
(***************************************************************************)
\* the directory without the entry of the key
Without(fs, path) == [p \in DOMAIN fs \ {path} |-> fs[p]]

\* the call as made
LastCall ==
  Call(last.t, last.s, last.e, last.arg, last.disk, rng,
       Upstream(last.t, last.s, last.e))

\* the entry of the key was there and reading it failed
ReadFailed ==
  /\ LastPath \in DOMAIN last.pre
  /\ last.disk # "ok" \/ ~Loadable(last.pre[LastPath].blob)

\* the call downloaded a table and its write to the cache failed
WriteFailed ==
  /\ last.disk # "ok"
  /\ \E i \in 1..Len(last.trace) :
       last.trace[i].ev = "download" /\ last.trace[i].kind = "data"

\* C19: get_stock_data does not raise on a cache I/O failure: when the entry
\* cannot be read it returns and calls the upstream as it can with no entry
\* there, and when the write fails it returns the table it downloaded.
C19_CacheFailureNotPropagated ==
  last.op = "fetch" =>
    /\ ReadFailed =>
         /\ ~last.raised
         /\ \E run \in GetStockData(Without(last.pre, LastPath), last.now0, LastCall) :
              run.out = last.out /\ run.trace = last.trace
    /\ WriteFailed =>
         /\ ~last.raised
         /\ last.out = Some(Quote(last.t, last.s, last.e))

\* C19: a fresh entry that could not be read, a download, and a failed
\* write that left a cut file; the downloaded table is returned.
C19_Witness ==
  /\ last.op = "fetch" /\ ReadFailed /\ WriteFailed
  /\ FreshEntry(last.pre, last.now0, LastPath)
  /\ last.out = Some(Quote(last.t, last.s, last.e))
  /\ files[LastPath].blob = Truncated

(***************************************************************************)
(* Properties of concurrent use of one cache entry.                        *)
(***************************************************************************)
WrittenTables == {TableOf(w) : w \in Writers} \cup {OldTable}

\* C20: whatever the interleaving of two writers of one key and a reader,
\* the file of the key is missing or holds exactly the stream of one table
\* that was written, and the reader gets nothing or one such table.
C20_EntryNeverCorrupted ==
  DOMAIN procs # {} =>
    /\ RaceKey \in DOMAIN files =>
         \E rows \in WrittenTables : files[RaceKey].blob.rows = Chunks(rows)
    /\ \/ procs["reader"].got.isNone
       \/ procs["reader"].got.rows \in WrittenTables

\* C20, the diverging run: both writers have finished, the file holds the
\* first chunk of one table and the second of the other, and the reader was
\* given the table they spell.
C20_Witness ==
  /\ DOMAIN procs # {}
  /\ \A w \in Writers : procs[w].pc = "done"
  /\ files[RaceKey].blob.rows = <<Cell(TableOf("w2"), 1), Cell(TableOf("w1"), 2)>>
  /\ procs["reader"].got = Some(<<Row(1, 9), Row(2, 8)>>)

(***************************************************************************)
(* The attempts of get_stock_data and the waits between them.              *)
(***************************************************************************)
\* the call started with no usable entry under its key
StartedWithMiss ==
  LoadFromCache(last.pre, last.now0, last.disk, last.t, last.s, last.e).isNone

\* C21: a get_stock_data that starts with a cache miss calls the upstream at
\* most max_retries times whatever the outcomes, and every call, rate-limited
\* or not, takes the next attempt index.
C21_AtMostMaxRetriesCalls ==
  (last.op = "fetch" /\ StartedWithMiss) =>
    /\ Len(Calls) <= last.arg
    /\ \A i \in 1..Len(Calls) : Calls[i].attempt = i - 1

\* C21: max_retries = 2 and two rate-limited calls, then absent.
C21_Witness ==
  /\ last.op = "fetch" /\ StartedWithMiss /\ last.arg = 2
  /\ Len(Calls) = 2
  /\ \A i \in 1..2 : Calls[i].kind = "ratelimit"
  /\ last.out.isNone

\* C22: an upstream call of attempt a that raises a rate-limit error is
\* followed at once by a sleep of 2^a + 1 to 2^a + 3 seconds; one that raises
\* another error is followed by a sleep of 1 second when an attempt remains,
\* and by nothing when it was the last.
C22_BackoffAfterRateLimit ==
  last.op = "fetch" =>
    \A i \in 1..Len(last.trace) :
      LET x == last.trace[i] IN
      /\ (x.ev = "download" /\ x.kind = "ratelimit") =>
           /\ i < Len(last.trace)
           /\ last.trace[i + 1].ev = "sleep" /\ last.trace[i + 1].kind = "backoff"
           /\ 2^x.attempt + 1 <= last.trace[i + 1].dur
           /\ last.trace[i + 1].dur <= 2^x.attempt + 3
      /\ (x.ev = "download" /\ x.kind = "error") =>
           IF x.attempt < last.arg - 1
           THEN /\ i < Len(last.trace)
                /\ last.trace[i + 1].ev = "sleep" /\ last.trace[i + 1].kind = "fixed"
                /\ last.trace[i + 1].dur = 1
           ELSE i = Len(last.trace)

\* C22: rate-limited at attempts 0 and 1, with waits that grow.
C22_Witness ==
  /\ last.op = "fetch" /\ Len(Calls) >= 2
  /\ Calls[1].kind = "ratelimit" /\ Calls[2].kind = "ratelimit"
  /\ \E i, j \in 1..Len(last.trace) :
       /\ i < j
       /\ last.trace[i].kind = "backoff" /\ last.trace[i].attempt = 0
       /\ last.trace[j].kind = "backoff" /\ last.trace[j].attempt = 1
       /\ last.trace[i].dur < last.trace[j].dur

\* C29: within one get_stock_data every upstream call after the first comes
\* directly after a random delay of delay_min to delay_max seconds, which
\* follows the failure's own wait if there was one, also when the call
\* before returned an empty table.
C29_DelayBeforeLaterAttempts ==
  last.op = "fetch" =>
    \A i \in 1..Len(last.trace) :
      (last.trace[i].ev = "download" /\ \E j \in 1..(i - 1) : last.trace[j].ev = "download") =>
        /\ last.trace[i - 1].ev = "sleep" /\ last.trace[i - 1].kind = "random"
        /\ DelayMin <= last.trace[i - 1].dur /\ last.trace[i - 1].dur <= DelayMax
        /\ last.trace[i - 2].ev = "download" \/ last.trace[i - 2].kind \in {"backoff", "fixed"}

\* C29: an empty table, then a random delay only, then the next call.
C29_Witness ==
  /\ last.op = "fetch" /\ Len(last.trace) >= 3
  /\ last.trace[1].ev = "download" /\ last.trace[1].kind = "empty"
  /\ last.trace[2].ev = "sleep" /\ last.trace[2].kind = "random"
  /\ last.trace[3].ev = "download"

(***************************************************************************)
(* The batches of batch_get_stock_data, their upstream calls and sleeps.   *)
(***************************************************************************)
RECURSIVE Elapsed(_, _)
\* seconds slept in the first n events of a trace
Elapsed(trace, n) == IF n = 0 THEN 0 ELSE Elapsed(trace, n - 1) + trace[n].dur

BatchCount == NumBatches(Len(last.tickers), last.arg)
\* where batch k starts in the trace of the call
PosOfBatch(k) ==
  CHOOSE i \in 1..Len(last.trace) :
    last.trace[i].ev = "batch" /\ last.trace[i].attempt = k
\* the events of batch k, its sleep included
SpanOfBatch(k) ==
  {i \in 1..Len(last.trace) :
     /\ PosOfBatch(k) < i
     /\ k < BatchCount => i < PosOfBatch(k + 1)}
Members(seq) == {seq[j] : j \in 1..Len(seq)}
IsUpstream(x) == x.ev \in {"bulk", "download"}
\* what the cache holds for t when batch k starts
HitAt(k, t) ==
  LoadFromCache(last.pre, last.now0 + Elapsed(last.trace, PosOfBatch(k)),
                last.disk, t, last.s, last.e)
MissesOf(k) ==
  SelectSeq(last.trace[PosOfBatch(k)].who, LAMBDA t : HitAt(k, t).isNone)

\* C23: in bulk mode a ticker with a fresh cache entry when its batch
\* starts gets the cached table and is in no upstream call; a batch makes at
\* most one bulk call, for exactly its cache misses in input order, and no
\* upstream call at all when it has no miss.
C23_BulkCallIsTheMisses ==
  (last.op = "batch" /\ last.bulk /\ last.arg >= 1) =>
    \A k \in 1..BatchCount :
      LET batch == last.trace[PosOfBatch(k)].who
          bulks == {i \in SpanOfBatch(k) : last.trace[i].ev = "bulk"}
      IN /\ Cardinality(bulks) <= 1
         /\ MissesOf(k) = <<>> =>
              \A i \in SpanOfBatch(k) : ~IsUpstream(last.trace[i])
         /\ MissesOf(k) # <<>> =>
              /\ bulks # {}
              /\ \A i \in bulks : last.trace[i].who = MissesOf(k)
         /\ \A t \in Members(batch) :
              ~HitAt(k, t).isNone =>
                /\ t \in DOMAIN last.results
                /\ last.results[t] = HitAt(k, t).rows
                /\ \A i \in 1..Len(last.trace) :
                     IsUpstream(last.trace[i]) => t \notin Members(last.trace[i].who)

\* C23: a batch of a cached and an uncached ticker, the bulk call is for
\* the uncached one; and a batch of two uncached ones, called in input order.
C23_Witness ==
  /\ last.op = "batch" /\ last.bulk /\ last.arg = 2
  /\ Len(last.tickers) = 3
  /\ "AAPL" \in DOMAIN last.results
  /\ \E i \in 1..Len(last.trace) :
       last.trace[i].ev = "bulk" /\ last.trace[i].who = <<"MSFT">>
  /\ \E i \in 1..Len(last.trace) :
       last.trace[i].ev = "bulk" /\ last.trace[i].who = <<"GOOGL">>

BatchEvents == SelectSeq(last.trace, LAMBDA x : x.ev = "batch")
FetchEvents == SelectSeq(last.trace, LAMBDA x : x.ev = "fetch")
\* the k-th slice of batch_size tickers
Slice(k) ==
  SubSeq(last.tickers, (k - 1) * last.arg + 1,
         IF k * last.arg < Len(last.tickers) THEN k * last.arg ELSE Len(last.tickers))

\* C24: for batch_size >= 1 the batches are the consecutive slices of
\* batch_size tickers, in input order, the last one possibly shorter, in both
\* modes; the per-ticker mode fetches each ticker once, in input order, in
\* its own batch.
C24_ConsecutiveSlices ==
  (last.op = "batch" /\ last.arg >= 1) =>
    /\ ~last.raised
    /\ Len(BatchEvents) = BatchCount
    /\ \A k \in 1..BatchCount :
         /\ BatchEvents[k].attempt = k
         /\ BatchEvents[k].who = Slice(k)
         /\ Len(BatchEvents[k].who) = last.arg \/ k = BatchCount
         /\ Len(BatchEvents[k].who) \in 1..last.arg
    /\ \A j \in 1..Len(last.tickers) :
         Cardinality({k \in 1..BatchCount : last.tickers[j] \in Members(BatchEvents[k].who)}) = 1
    /\ ~last.bulk =>
         /\ Len(FetchEvents) = Len(last.tickers)
         /\ \A j \in 1..Len(last.tickers) :
              /\ FetchEvents[j].who = <<last.tickers[j]>>
              /\ last.tickers[j] \in Members(Slice(FetchEvents[j].attempt))

\* C24: three tickers in batches of two: a full slice and a shorter last one.
C24_Witness ==
  /\ last.op = "batch" /\ last.arg = 2 /\ Len(last.tickers) = 3
  /\ Len(BatchEvents) = 2
  /\ BatchEvents[1].who = <<"AAPL", "MSFT">>
  /\ BatchEvents[2].who = <<"GOOGL">>

IsBatchSleep(x) == x.ev = "sleep" /\ x.kind = "batch"

\* C25: for batch_size >= 1 and at least one ticker the call sleeps
\* delay_between_batches exactly ceil(n / batch_size) - 1 times: directly
\* before every batch but the first and at no other point, so never after the
\* last batch, and every upstream call of a batch comes after the sleep that
\* follows the batch before; in bulk mode, in per-ticker mode and when a bulk
\* call failed over to per-ticker fetches.
C25_SleepBetweenBatches ==
  (last.op = "batch" /\ last.arg >= 1) =>
    /\ Cardinality({i \in 1..Len(last.trace) : IsBatchSleep(last.trace[i])})
         = BatchCount - 1
    /\ \A i \in 1..Len(last.trace) :
         /\ IsBatchSleep(last.trace[i]) =>
              /\ last.trace[i].dur = BatchDelay
              /\ i < Len(last.trace)
              /\ last.trace[i + 1].ev = "batch"
              /\ last.trace[i + 1].attempt = last.trace[i].attempt + 1
         /\ (last.trace[i].ev = "batch" /\ last.trace[i].attempt > 1) =>
              IsBatchSleep(last.trace[i - 1])
         /\ IsUpstream(last.trace[i]) =>
              \E k \in 1..BatchCount :
                /\ i \in SpanOfBatch(k)
                /\ Members(last.trace[i].who) \subseteq Members(Slice(k))
                /\ k > 1 => \E j \in 1..(i - 1) :
                              IsBatchSleep(last.trace[j]) /\ last.trace[j].attempt = k - 1

\* C25: two batches in bulk mode, the first bulk call failed and its
\* tickers were fetched one by one, then one sleep, then the second batch.
C25_Witness ==
  /\ last.op = "batch" /\ last.bulk /\ last.arg = 2 /\ Len(last.tickers) = 3
  /\ \E i, j, k \in 1..Len(last.trace) :
       /\ i < j /\ j < k
       /\ last.trace[i].ev = "bulk" /\ last.trace[i].kind = "raise"
       /\ last.trace[i].attempt = 1
       /\ last.trace[i + 1].ev = "fetch"
       /\ IsBatchSleep(last.trace[j])
       /\ IsUpstream(last.trace[k]) /\ last.trace[k].who = <<"GOOGL">>
  /\ Cardinality({i \in 1..Len(last.trace) : IsBatchSleep(last.trace[i])}) = 1

(***************************************************************************)
(* The compatibility check.                                                *)
(***************************************************************************)
\* C26: the signature of yf.download is looked at once, when the helper is
\* built, and by no fetch or batch call; every upstream call carries
\* show_errors, and session, exactly when that look found the parameter, and
\* carries the base parameters of its call site unchanged.
C26_ProbedOnceAtConstruction ==
  /\ helper.probes = (IF helper.built THEN 1 ELSE 0)
  /\ helper.supports_show_errors = ("show_errors" \in helper.found)
  /\ helper.supports_session = ("session" \in helper.found)
  /\ ~helper.built => yf.calls = <<>>
  /\ \A i \in 1..Len(yf.calls) :
       LET c == yf.calls[i]
           base == IF c.multi
                   THEN [start |-> "2024-01-01", end |-> "2024-01-31",
                         progress |-> "False", threads |-> "True",
                         group_by |-> "ticker"]
                   ELSE [start |-> "2024-01-01", end |-> "2024-01-31",
                         progress |-> "False", threads |-> "False"]
       IN /\ \A p \in OptionalParams : p \in DOMAIN c.kwargs <=> p \in helper.found
          /\ DOMAIN c.kwargs \ OptionalParams = DOMAIN base
          /\ \A k \in DOMAIN base : c.kwargs[k] = base[k]

\* C26: a helper built when yf.download had show_errors and no session, a
\* module without show_errors in its place since, and a bulk call and a
\* single call made with show_errors and without session.
C26_Witness ==
  /\ helper.built /\ helper.found = {"show_errors"}
  /\ yf.params = {}
  /\ \E i, j \in 1..Len(yf.calls) :
       /\ yf.calls[i].multi /\ ~yf.calls[j].multi
       /\ DOMAIN yf.calls[i].kwargs \cap OptionalParams = {"show_errors"}
       /\ DOMAIN yf.calls[j].kwargs \cap OptionalParams = {"show_errors"}

(***************************************************************************)
(* update_returns_for_existing_records.                                    *)
(***************************************************************************)
HasReturns(row) == \E k \in 1..3 : row.returns[k] # Absent

\* C27: update_returns_for_existing_records takes exactly the stored rows
\* that have no returns yet, and leaves every row that has returns as it was.
C27_UpdatesOnlyTheAbsent ==
  last.op = "update" =>
    /\ Members(last.results) = {i \in 1..Len(last.rows) : ~HasReturns(last.rows[i])}
    /\ \A i \in 1..Len(last.rows) : HasReturns(last.rows[i]) => db[i] = last.rows[i]

\* C27: a row with returns and a row without went in; the upstream failed;
\* the row that had returns has none left and the other was not looked at.
C27_Witness ==
  /\ last.op = "update" /\ Len(last.rows) = 2
  /\ HasReturns(last.rows[1]) /\ ~HasReturns(last.rows[2])
  /\ last.rows[2].initial_price # NoPrice
  /\ last.results = <<1>>
  /\ db[1].returns = NoReturns
  /\ db[2] = last.rows[2]

(***************************************************************************)
(* What an unresolved ticker leaves in the cache.                          *)
(***************************************************************************)
\* the file under the key of t, if there is one
EntryOf(fs, t) ==
  IF Exists(fs, CachePath(t, last.s, last.e))
  THEN <<fs[CachePath(t, last.s, last.e)]>> ELSE <<>>
Unresolved == Members(last.tickers) \ DOMAIN last.results

\* C28: a get_stock_data that returned None left the cache directory as it
\* found it; after batch_get_stock_data every ticker missing from the result
\* has the file it had before, or none, under its key and no write was
\* attempted for it, and no file holds an empty table.
C28_AbsentLeavesCacheAlone ==
  /\ (last.op = "fetch" /\ last.out.isNone) => files = last.pre
  /\ last.op = "batch" =>
       /\ \A t \in Unresolved :
            /\ EntryOf(files, t) = EntryOf(last.pre, t)
            /\ \A i \in 1..Len(last.trace) :
                 last.trace[i].ev = "save" => last.trace[i].who # <<t>>
       /\ DOMAIN last.results = {} => files = last.pre
  /\ \A p \in DOMAIN files :
       Loadable(files[p].blob) => ~Empty(Unpickle(files[p].blob))

\* C28: one bulk call for two tickers: one came back with data and was
\* cached, the other came back empty and its expired file is still there;
\* and a per-ticker fetch that gave up.
C28_Witness ==
  /\ last.op = "batch" /\ last.bulk
  /\ "MSFT" \in DOMAIN last.results
  /\ "AAPL" \in Unresolved /\ "GOOGL" \in Unresolved
  /\ EntryOf(last.pre, "AAPL") # <<>>
  /\ files # last.pre
  /\ \E i \in 1..Len(last.trace) :
       /\ last.trace[i].ev = "bulk" /\ last.trace[i].kind = "table"
       /\ last.trace[i].who = <<"AAPL", "MSFT">>
  /\ \E i \in 1..Len(last.trace) :
       last.trace[i].ev = "fetch" /\ last.trace[i].who = <<"GOOGL">>

(***************************************************************************)
(* The cache after batch_get_stock_data.                                   *)
(***************************************************************************)
\* the same call made again right after the first returned, under a script
\* of upstream answers (the per-ticker mode makes no bulk call, so one
\* answer to bulk calls stands for all)
RepeatScripts ==
  {sc \in Scripts(last.tickers, last.arg) :
     last.bulk \/ \A k \in DOMAIN sc.bulk : sc.bulk[k] = "raise"}
RepeatRuns(sc) ==
  BatchGetStockData(files, now,
    [tickers |-> last.tickers, s |-> last.s, e |-> last.e,
     bs |-> last.arg, delay |-> BatchDelay, bulk |-> last.bulk,
     disk |-> disk, rnd |-> rng, script |-> sc])
CalledFor(run, t) ==
  \E i \in 1..Len(run.trace) :
    IsUpstream(run.trace[i]) /\ t \in Members(run.trace[i].who)
HoldsResult(t) ==
  /\ EntryOf(files, t) # <<>>
  /\ Loadable(EntryOf(files, t)[1].blob)
  /\ Unpickle(EntryOf(files, t)[1].blob) = last.results[t]

====
